---------------------------- MODULE Spec2Model ----------------------------
(***************************************************************************)
(* Model of the mood analytics core of moodtracker-sheets                  *)
(* (src/src/mood_tracker.py) together with the gateway call it makes into  *)
(* src/src/sheets_api.py.                                                  *)
(*                                                                         *)
(*   MoodEntry    : record  timestamp, mood_score, notes, stress_level,    *)
(*                  energy_level, sleep_hours, tags                        *)
(*   MoodTracker  : entries (a Python list), sheets_api (optional gateway) *)
(*                                                                         *)
(* Representation choices                                                  *)
(*   - a datetime is a count of clock ticks since datetime.min, the start  *)
(*     of day 0, the earliest moment a datetime can hold; the               *)
(*     tick stands for the microsecond, TicksPerSec ticks make a second    *)
(*     and SecsPerDay seconds a day.  Its tzinfo is kept beside it in the  *)
(*     record's field tzinfo: <<>> for a naive datetime, <<offset>> for an *)
(*     aware one (offset in hours);                                        *)
(*   - the text datetime.isoformat() produces is the sequence              *)
(*     <<date, second-of-day>> or <<date, second-of-day, microsecond>>,    *)
(*     and <<date, second-of-day, microsecond, offset>> with a UTC offset; *)
(*   - sleep_hours is counted in half hours (8.0 h is 16);                 *)
(*   - a str is the sequence of its code points ('Work' is                 *)
(*     <<87, 111, 114, 107>>);                                             *)
(*   - a Python value whose type the code does not fix (a JSON document,   *)
(*     the tags of an entry, the tag searched for) is a tagged value       *)
(*     [k, v], one of the values json.loads can produce: a list "arr" of   *)
(*     tagged values, a str "str", an int "num", a bool "bool", None       *)
(*     "null", and a dict "dict", the sequence of its <<key, value>> items *)
(*     in insertion order, each key a str.  JObj writes the dict of an     *)
(*     entry from a record of its fields.  A JSON text is [valid, doc]:    *)
(*     json.loads raises on a text that is not valid.                      *)
(***************************************************************************)
EXTENDS Integers, Sequences, FiniteSets, TLC

VARIABLES
    now,         \* the wall clock: what datetime.now() returns
    entries,     \* MoodTracker.entries
    sheets_api,  \* MoodTracker.sheets_api: "none" or the kind of gateway injected
    held,        \* MoodEntry objects the caller has constructed and still holds
    ret,         \* the step just taken: operation, arguments, result
    series,      \* input of a direct call of _calculate_trend
    trend,       \* its result
    offered      \* the calls of the gateway's append so far: the record
                 \* passed and MoodTracker.entries at the moment of the call

vars == <<now, entries, sheets_api, held, ret, series, trend, offered>>

----------------------------------------------------------------------------
(* Bounds of the model *)

TicksPerSec == 2
SecsPerDay == 2
TicksPerDay == SecsPerDay * TicksPerSec
StartDay == 30
MaxTicks == 2
MaxEntries == 2
MaxHeld == 1
MaxImportLen == 2

StartTime == StartDay * TicksPerDay

(* Program constants: the defaults of MoodEntry.__init__ and from_dict *)
DefaultLevel == 5
DefaultSleep == 16

\* the date of datetime.max (9999-12-31) and the bound of a UTC offset,
\* which lies strictly between -24 and 24 hours
MaxDay == 3652058
MaxOffset == 23

----------------------------------------------------------------------------
(* Python values *)

JDict(items) == [k |-> "dict", v |-> items]
JArr(items)  == [k |-> "arr", v |-> items]
JStr(s)      == [k |-> "str", v |-> s]
JNum(n)      == [k |-> "num", v |-> n]
JBool(b)     == [k |-> "bool", v |-> b]
JNull        == [k |-> "null", v |-> 0]

\* the keys of the dict of an entry, in the order to_dict writes them
FieldNames ==
    <<"timestamp", "mood_score", "notes", "stress_level", "energy_level",
      "sleep_hours", "tags">>

\* the key as a str
Key ==
    [timestamp    |-> <<116, 105, 109, 101, 115, 116, 97, 109, 112>>,
     mood_score   |-> <<109, 111, 111, 100, 95, 115, 99, 111, 114, 101>>,
     notes        |-> <<110, 111, 116, 101, 115>>,
     stress_level |-> <<115, 116, 114, 101, 115, 115, 95, 108, 101, 118, 101, 108>>,
     energy_level |-> <<101, 110, 101, 114, 103, 121, 95, 108, 101, 118, 101, 108>>,
     sleep_hours  |-> <<115, 108, 101, 101, 112, 95, 104, 111, 117, 114, 115>>,
     tags         |-> <<116, 97, 103, 115>>]

\* the dict with the keys of the record fields, each with its value
JObj(fields) ==
    LET names == SelectSeq(FieldNames, LAMBDA name : name \in DOMAIN fields)
    IN  JDict([i \in 1..Len(names) |-> <<Key[names[i]], fields[names[i]]>>])

\* "key in data" and data[key] on a dict
Has(data, name) == \E i \in 1..Len(data.v) : data.v[i][1] = Key[name]

Get(data, name) ==
    data.v[CHOOSE i \in 1..Len(data.v) : data.v[i][1] = Key[name]][2]

\* bool(value): None, False, zero and the empty str, list and dict are false
Truthy(value) ==
    CASE value.k = "arr"  -> value.v # <<>>
      [] value.k = "str"  -> value.v # <<>>
      [] value.k = "dict" -> value.v # <<>>
      [] value.k = "num"  -> value.v # 0
      [] value.k = "bool" -> value.v
      [] OTHER            -> FALSE

\* what "for x in value" yields: the elements of a list, the keys of a dict,
\* the characters of a str; TypeError (ok = FALSE) on anything else
Iterate(doc) ==
    CASE doc.k = "arr"  -> [ok |-> TRUE, items |-> doc.v]
      [] doc.k = "dict" -> [ok |-> TRUE,
                            items |-> [i \in 1..Len(doc.v) |-> JStr(doc.v[i][1])]]
      [] doc.k = "str"  -> [ok |-> TRUE,
                            items |-> [i \in 1..Len(doc.v) |-> JStr(<<doc.v[i]>>)]]
      [] OTHER          -> [ok |-> FALSE, items |-> <<>>]

\* a == b on two values a dict can hold as keys: 1 == True and 0 == False
PyEq(a, b) ==
    \/ a.k = b.k /\ a.v = b.v
    \/ a.k = "num" /\ b.k = "bool" /\ a.v = (IF b.v THEN 1 ELSE 0)
    \/ a.k = "bool" /\ b.k = "num" /\ b.v = (IF a.v THEN 1 ELSE 0)

\* hash(value) raises TypeError on a list and on a dict
Hashable(value) == value.k \notin {"arr", "dict"}

----------------------------------------------------------------------------
(* datetime *)

date(ts) == ts \div TicksPerDay

\* datetime.isoformat(): the microsecond part is written only when
\* non-zero, the UTC offset only for an aware datetime
isoformat(ts, tz) ==
    LET d  == ts \div TicksPerDay
        s  == (ts % TicksPerDay) \div TicksPerSec
        us == ts % TicksPerSec
    IN  IF tz # <<>> THEN <<d, s, us, tz[1]>>
        ELSE IF us = 0 THEN <<d, s>> ELSE <<d, s, us>>

\* datetime.fromisoformat(): a date, optionally a time, optionally its
\* fraction, optionally a UTC offset, which makes the datetime aware;
\* ValueError (ok = FALSE) on anything else, a date after datetime.max and
\* an offset of a day or more included
fromisoformat(txt) ==
    LET n == Len(txt) IN
    IF n \notin 1..4 THEN [ok |-> FALSE, value |-> 0, tzinfo |-> <<>>]
    ELSE
        LET d  == txt[1]
            s  == IF n >= 2 THEN txt[2] ELSE 0
            us == IF n >= 3 THEN txt[3] ELSE 0
            tz == IF n >= 4 THEN <<txt[4]>> ELSE <<>>
        IN  IF /\ d \in 0..MaxDay
               /\ s \in 0..(SecsPerDay - 1)
               /\ us \in 0..(TicksPerSec - 1)
               /\ \A i \in 1..Len(tz) : tz[i] \in (-MaxOffset)..MaxOffset
            THEN [ok     |-> TRUE,
                  value  |-> d * TicksPerDay + s * TicksPerSec + us,
                  tzinfo |-> tz]
            ELSE [ok |-> FALSE, value |-> 0, tzinfo |-> <<>>]

----------------------------------------------------------------------------
(* MoodEntry *)

\* a keyword argument, or its default when the caller leaves it out
Arg(args, key, default) == IF key \in DOMAIN args THEN args[key] ELSE default

\* "tags or []": the value given, whatever its type, when it is true; a new
\* empty list for every false one (None, the default, included)
tags_or_empty(args) ==
    LET tags == Arg(args, "tags", JNull)
    IN  IF Truthy(tags) THEN tags ELSE JArr(<<>>)

\* a constructor that trusts a clock running ahead of the system's
MoodEntry_init_ahead(args, clock) ==
    [timestamp    |-> clock + 1,
     tzinfo       |-> <<>>,
     mood_score   |-> args.mood_score,
     notes        |-> Arg(args, "notes", <<>>),
     stress_level |-> Arg(args, "stress_level", DefaultLevel),
     energy_level |-> Arg(args, "energy_level", DefaultLevel),
     sleep_hours  |-> Arg(args, "sleep_hours", DefaultSleep),
     tags         |-> tags_or_empty(args)]

\* MoodEntry.__init__: timestamp = datetime.now(), a naive datetime; no
\* field is validated
MoodEntry_init(args, clock) ==
    [timestamp    |-> clock,
     tzinfo       |-> <<>>,
     mood_score   |-> args.mood_score,
     notes        |-> Arg(args, "notes", <<>>),
     stress_level |-> Arg(args, "stress_level", DefaultLevel),
     energy_level |-> Arg(args, "energy_level", DefaultLevel),
     sleep_hours  |-> Arg(args, "sleep_hours", DefaultSleep),
     tags         |-> tags_or_empty(args)]

\* an export that writes the timestamp to the second only
to_dict_seconds(e) ==
    [timestamp    |-> <<date(e.timestamp), (e.timestamp % TicksPerDay) \div TicksPerSec>>,
     mood_score   |-> e.mood_score,
     notes        |-> e.notes,
     stress_level |-> e.stress_level,
     energy_level |-> e.energy_level,
     sleep_hours  |-> e.sleep_hours,
     tags         |-> e.tags]

\* MoodEntry.to_dict: every field as it is stored, the timestamp as text
to_dict(e) ==
    [timestamp    |-> isoformat(e.timestamp, e.tzinfo),
     mood_score   |-> e.mood_score,
     notes        |-> e.notes,
     stress_level |-> e.stress_level,
     energy_level |-> e.energy_level,
     sleep_hours  |-> e.sleep_hours,
     tags         |-> e.tags]

NoEntry == MoodEntry_init([mood_score |-> 0], 0)

\* data.get(key, default)
DictGet(data, name, default) == IF Has(data, name) THEN Get(data, name) ELSE default

\* MoodEntry.from_dict on one element of the parsed document; ok = FALSE
\* stands for the exception it raises (TypeError or AttributeError on
\* what is no dict, KeyError on a missing mood_score, ValueError on a bad
\* timestamp)
from_dict(data, clock) ==
    IF data.k # "dict" THEN [ok |-> FALSE, entry |-> NoEntry]
    ELSE IF ~Has(data, "mood_score") THEN [ok |-> FALSE, entry |-> NoEntry]
    ELSE
        LET entry == MoodEntry_init(
                [mood_score   |-> Get(data, "mood_score"),
                 notes        |-> DictGet(data, "notes", <<>>),
                 stress_level |-> DictGet(data, "stress_level", DefaultLevel),
                 energy_level |-> DictGet(data, "energy_level", DefaultLevel),
                 sleep_hours  |-> DictGet(data, "sleep_hours", DefaultSleep),
                 tags         |-> DictGet(data, "tags", JArr(<<>>))], clock)
        IN  IF Has(data, "timestamp")
            THEN LET t == fromisoformat(Get(data, "timestamp"))
                 IN  IF t.ok
                     THEN [ok    |-> TRUE,
                           entry |-> [entry EXCEPT !.timestamp = t.value,
                                                   !.tzinfo = t.tzinfo]]
                     ELSE [ok |-> FALSE, entry |-> NoEntry]
            ELSE [ok |-> TRUE, entry |-> entry]

----------------------------------------------------------------------------
(* json *)

json_dumps(doc) == [valid |-> TRUE, doc |-> doc]

\* json.loads: JSONDecodeError (ok = FALSE) on a text that is not JSON
json_loads(text) ==
    IF text.valid THEN [ok |-> TRUE, value |-> text.doc]
    ELSE [ok |-> FALSE, value |-> JNull]

----------------------------------------------------------------------------
(* SheetsAPI *)

\* ', '.join(tags) takes the strs an iteration of tags yields; TypeError on
\* what cannot be iterated and on an element that is no str
Joinable(tags) ==
    LET it == Iterate(tags)
    IN  it.ok /\ \A i \in 1..Len(it.items) : it.items[i].k = "str"

\* SheetsAPI.add_mood_entry: False when not connected; False when the row
\* cannot be made, the tags being true and not joinable (the TypeError is
\* caught inside, the API is not called); True when the API call returns,
\* False when it raises an Exception (caught inside); an exception that is no
\* Exception (KeyboardInterrupt, SystemExit) passes through the handler to
\* the caller
add_mood_entry(mood_entry, connected, execute) ==
    IF ~connected THEN "False"
    ELSE IF Truthy(mood_entry.tags) /\ ~Joinable(mood_entry.tags) THEN "False"
    ELSE IF execute = "Exception" THEN "False"
    ELSE IF execute = "BaseException" THEN "raise_base"
    ELSE "True"

\* "if self.sheets_api:": no gateway (None), or one whose bool() is false
\* (an object with __len__ giving 0 or __bool__ giving False), is not called
gateway_bool(api) == api \notin {"none", "falsy"}

\* what a gateway's append does to the record it is given, when it changes it
Mutated(e) == [e EXCEPT !.notes = <<115, 121, 110, 99, 101, 100>>]

----------------------------------------------------------------------------
(* MoodTracker *)

\* MoodTracker.export_data
export_data(es) == json_dumps(JArr([i \in 1..Len(es) |-> JObj(to_dict(es[i]))]))

\* what datetime.now() returns at the i-th reading of a call that starts at
\* clock, the clock moving step ticks from one reading to the next
Reading(clock, step, i) == clock + (i - 1) * step

\* an import that replaces the collection instead of extending it
import_data_replace(es, text, clock, step) ==
    LET data == json_loads(text) IN
    IF ~data.ok THEN [entries |-> es, result |-> "False"]
    ELSE
        LET it == Iterate(data.value) IN
        IF ~it.ok THEN [entries |-> es, result |-> "False"]
        ELSE
            LET parsed == [i \in 1..Len(it.items) |->
                              from_dict(it.items[i], Reading(clock, step, i))]
            IN  IF \E i \in 1..Len(it.items) : ~parsed[i].ok
                THEN [entries |-> es, result |-> "False"]
                ELSE [entries |-> [i \in 1..Len(it.items) |-> parsed[i].entry],
                      result  |-> "True"]

\* MoodTracker.import_data: every element is converted before the list is
\* extended, each conversion reading the clock anew; any exception leaves
\* the list as it was and returns False
import_data(es, text, clock, step) ==
    LET data == json_loads(text) IN
    IF ~data.ok THEN [entries |-> es, result |-> "False"]
    ELSE
        LET it == Iterate(data.value) IN
        IF ~it.ok THEN [entries |-> es, result |-> "False"]
        ELSE
            LET parsed == [i \in 1..Len(it.items) |->
                              from_dict(it.items[i], Reading(clock, step, i))]
            IN  IF \E i \in 1..Len(it.items) : ~parsed[i].ok
                THEN [entries |-> es, result |-> "False"]
                ELSE [entries |-> es \o [i \in 1..Len(it.items) |-> parsed[i].entry],
                      result  |-> "True"]

\* the list after the gateway's append has run on it: the gateway holds the
\* tracker and the record, and what it does to them stays.  effect "import"
\* is a gateway that calls tracker.import_data(text), effect "mutate" one
\* that changes the record, which shows at every place of the list that
\* holds this same object (same, a set of indices)
after_gateway(appended, mood_entry, outcome, clock, same) ==
    CASE outcome.effect = "import" ->
            import_data(appended, outcome.text, clock, 0).entries
      [] outcome.effect = "mutate" ->
            [i \in 1..Len(appended) |->
                IF i = Len(appended) \/ i \in same
                THEN Mutated(appended[i]) ELSE appended[i]]
      [] OTHER -> appended

\* an add that undoes the append when the gateway raises
add_entry_rollback(es, api, mood_entry, outcome, clock, same) ==
    LET appended == Append(es, mood_entry)
        calls    == <<[record |-> mood_entry, store |-> appended]>>
        stored   == after_gateway(appended, mood_entry, outcome, clock, same)
    IN  IF ~gateway_bool(api)
        THEN [entries |-> appended, result |-> "True", calls |-> <<>>]
        ELSE IF outcome.result = "raise_base"
        THEN [entries |-> es, result |-> "raised", calls |-> calls]
        ELSE IF outcome.result = "raise"
        THEN [entries |-> es, result |-> "False", calls |-> calls]
        ELSE [entries |-> stored, result |-> "True", calls |-> calls]

\* MoodTracker.add_entry: append, then the call of the gateway if there is a
\* true one; the value the gateway returns is dropped, an Exception it
\* raises leads to False, and any other exception leaves add_entry
\* (result "raised") with the record appended.  calls is the call of the
\* gateway's append the add makes
add_entry(es, api, mood_entry, outcome, clock, same) ==
    LET appended == Append(es, mood_entry)
        calls    == <<[record |-> mood_entry, store |-> appended]>>
        stored   == after_gateway(appended, mood_entry, outcome, clock, same)
    IN  IF ~gateway_bool(api)
        THEN [entries |-> appended, result |-> "True", calls |-> <<>>]
        ELSE IF outcome.result = "raise_base"
        THEN [entries |-> stored, result |-> "raised", calls |-> calls]
        ELSE IF outcome.result = "raise"
        THEN [entries |-> stored, result |-> "False", calls |-> calls]
        ELSE [entries |-> stored, result |-> "True", calls |-> calls]

\* datetime.max, the last tick of day MaxDay
MaxTime == (MaxDay + 1) * TicksPerDay - 1

\* datetime - timedelta(days): OverflowError (ok = FALSE) when the result
\* would lie before datetime.min or, the days being negative, after
\* datetime.max
datetime_sub(clock, days) ==
    LET t == clock - days * TicksPerDay
    IN  IF t < 0 \/ t > MaxTime
        THEN [ok |-> FALSE, value |-> 0]
        ELSE [ok |-> TRUE, value |-> t]

\* MoodTracker.get_recent_entries: the entries not older than the cutoff,
\* in list order.  ok = FALSE stands for the exception it raises: the
\* OverflowError of a cutoff no datetime can hold, or the TypeError of
\* comparing an aware timestamp with the cutoff, which is naive
get_recent_entries(es, clock, days) ==
    LET cutoff_date == datetime_sub(clock, days) IN
    IF ~cutoff_date.ok
    THEN [ok |-> FALSE, error |-> "OverflowError", value |-> <<>>]
    ELSE IF \E i \in 1..Len(es) : es[i].tzinfo # <<>>
    THEN [ok |-> FALSE, error |-> "TypeError", value |-> <<>>]
    ELSE [ok    |-> TRUE,
          error |-> "",
          value |-> SelectSeq(es, LAMBDA entry : entry.timestamp >= cutoff_date.value)]

RECURSIVE sum(_)
sum(values) == IF values = <<>> THEN 0 ELSE Head(values) + sum(Tail(values))

Field(es, f) == [i \in 1..Len(es) |-> es[i][f]]

NoData == [error |-> "No entries found"]

\* the result of a call that ends in an uncaught exception
Raised(exception) == [raised |-> exception]

----------------------------------------------------------------------------
(* float: the IEEE 754 double arithmetic of "/" and "-" on the means.      *)
(* A double is [s, e, m]: sign s (-1, 0, 1), the exponent e of its leading *)
(* bit, and its Precision mantissa bits m, leading bit first; its value is *)
(* s * (m[1] * 2^e + m[2] * 2^(e-1) + ...).  Every operation computes the  *)
(* exact result as a bit string and rounds it to nearest, ties to even.    *)

Precision == 53

FZero == [s |-> 0, e |-> 0, m |-> <<>>]

Zeros(n) == [i \in 1..n |-> 0]

Abs(a) == IF a < 0 THEN -a ELSE a

\* the bit string without its leading zeros
StripZeros(B) ==
    IF \A i \in 1..Len(B) : B[i] = 0 THEN <<>>
    ELSE LET f == CHOOSE i \in 1..Len(B) : B[i] = 1 /\ \A j \in 1..(i - 1) : B[j] = 0
         IN  SubSeq(B, f, Len(B))

\* m + 1 in the last place; a carry out of the leading bit moves the exponent
Increment(m, e) ==
    IF \A i \in 1..Len(m) : m[i] = 1
    THEN [e |-> e + 1, m |-> <<1>> \o Zeros(Len(m) - 1)]
    ELSE LET z == CHOOSE i \in 1..Len(m) : m[i] = 0 /\ \A j \in (i + 1)..Len(m) : m[j] = 1
         IN  [e |-> e,
              m |-> [i \in 1..Len(m) |-> IF i < z THEN m[i] ELSE IF i = z THEN 1 ELSE 0]]

\* round to nearest, ties to even: B is the exact magnitude (leading bit 1,
\* of exponent e), sticky says that non-zero bits follow B
Round(sign, B, e, sticky) ==
    IF Len(B) <= Precision
    THEN [s |-> sign, e |-> e, m |-> B \o Zeros(Precision - Len(B))]
    ELSE
        LET m     == SubSeq(B, 1, Precision)
            guard == B[Precision + 1]
            rest  == sticky \/ \E i \in (Precision + 2)..Len(B) : B[i] = 1
            up    == guard = 1 /\ (rest \/ m[Precision] = 1)
        IN  IF up
            THEN LET r == Increment(m, e) IN [s |-> sign, e |-> r.e, m |-> r.m]
            ELSE [s |-> sign, e |-> e, m |-> m]

\* n / b scaled by a power of two into [1, 2)
RECURSIVE Normalize(_, _, _)
Normalize(n, b, e) ==
    IF n < b THEN Normalize(2 * n, b, e - 1)
    ELSE IF n >= 2 * b THEN Normalize(n, 2 * b, e + 1)
    ELSE [n |-> n, b |-> b, e |-> e]

\* long division: the next k bits of r / b (r < b), and the remainder;
\* the bits are produced half by half, the second half from the remainder
\* the first leaves
RECURSIVE QuotientBits(_, _, _)
QuotientBits(r, b, k) ==
    IF k = 0 THEN [bits |-> <<>>, rem |-> r]
    ELSE IF k = 1
    THEN LET bit == IF 2 * r >= b THEN 1 ELSE 0
         IN  [bits |-> <<bit>>, rem |-> 2 * r - bit * b]
    ELSE LET high == QuotientBits(r, b, k \div 2)
             low  == QuotientBits(high.rem, b, k - k \div 2)
         IN  [bits |-> high.bits \o low.bits, rem |-> low.rem]

\* int / int, Python's true division: the correctly rounded quotient
TrueDiv(a, b) ==
    IF a = 0 THEN FZero
    ELSE LET nz == Normalize(Abs(a), b, 0)
             q  == QuotientBits(nz.n - nz.b, nz.b, Precision)
         IN  Round(IF a < 0 THEN -1 ELSE 1, <<1>> \o q.bits, nz.e, q.rem # 0)

\* X + Y on the bits i..j of two bit strings, with carry c into bit j:
\* the sum bits and the carry out of bit i; the low half is added first
RECURSIVE AddBits(_, _, _, _, _)
AddBits(X, Y, i, j, c) ==
    IF i > j THEN [bits |-> <<>>, carry |-> c]
    ELSE IF i = j
    THEN LET t == X[i] + Y[i] + c
         IN  [bits |-> <<t % 2>>, carry |-> t \div 2]
    ELSE LET mid  == (i + j) \div 2
             low  == AddBits(X, Y, mid + 1, j, c)
             high == IF low.carry = 1 THEN AddBits(X, Y, i, mid, 1)
                     ELSE AddBits(X, Y, i, mid, 0)
         IN  [bits |-> high.bits \o low.bits, carry |-> high.carry]

\* X - Y on the bits i..j, with borrow c from bit j: the difference bits and
\* the borrow out of bit i
RECURSIVE SubBits(_, _, _, _, _)
SubBits(X, Y, i, j, c) ==
    IF i > j THEN [bits |-> <<>>, carry |-> c]
    ELSE IF i = j
    THEN LET t == X[i] - Y[i] - c
         IN  [bits |-> <<IF t < 0 THEN t + 2 ELSE t>>, carry |-> IF t < 0 THEN 1 ELSE 0]
    ELSE LET mid  == (i + j) \div 2
             low  == SubBits(X, Y, mid + 1, j, c)
             high == IF low.carry = 1 THEN SubBits(X, Y, i, mid, 1)
                     ELSE SubBits(X, Y, i, mid, 0)
         IN  [bits |-> high.bits \o low.bits, carry |-> high.carry]

LessBits(X, Y) ==
    \E i \in 1..Len(X) : X[i] < Y[i] /\ \A j \in 1..(i - 1) : X[j] = Y[j]

\* x - y on doubles
FSub(x, y) ==
    IF y.s = 0 THEN x
    ELSE IF x.s = 0 THEN [y EXCEPT !.s = -y.s]
    ELSE
        LET lx == x.e - (Precision - 1)
            ly == y.e - (Precision - 1)
            l  == IF lx < ly THEN lx ELSE ly
            X0 == x.m \o Zeros(lx - l)
            Y0 == y.m \o Zeros(ly - l)
            w  == IF Len(X0) > Len(Y0) THEN Len(X0) ELSE Len(Y0)
            X  == Zeros(w - Len(X0)) \o X0
            Y  == Zeros(w - Len(Y0)) \o Y0
            B  == IF x.s # y.s
                  THEN LET a == AddBits(X, Y, 1, w, 0) IN <<a.carry>> \o a.bits
                  ELSE IF LessBits(X, Y) THEN SubBits(Y, X, 1, w, 0).bits
                  ELSE SubBits(X, Y, 1, w, 0).bits
            sg == IF x.s # y.s THEN x.s
                  ELSE IF LessBits(X, Y) THEN -x.s ELSE x.s
            S  == StripZeros(B)
        IN  IF S = <<>> THEN FZero
            ELSE Round(sg, S, l + Len(S) - 1, FALSE)

\* |x| > 0.5
AboveHalf(x) ==
    /\ x.s # 0
    /\ x.e > -1 \/ (x.e = -1 /\ \E i \in 2..Precision : x.m[i] = 1)

----------------------------------------------------------------------------
(* trend *)

\* a classification in exact arithmetic: whether twice the difference of
\* the means exceeds one, by cross multiplication
calculate_trend_exact(values) ==
    IF Len(values) < 2 THEN "insufficient_data"
    ELSE
        LET mid_point == Len(values) \div 2
            rest      == Len(values) - mid_point
            first     == sum(SubSeq(values, 1, mid_point))
            second    == sum(SubSeq(values, mid_point + 1, Len(values)))
            twice     == 2 * (second * mid_point - first * rest)
        IN  IF twice > mid_point * rest THEN "improving"
            ELSE IF twice < -(mid_point * rest) THEN "declining"
            ELSE "stable"

\* MoodTracker._calculate_trend
calculate_trend(values) ==
    IF Len(values) < 2 THEN "insufficient_data"
    ELSE
        LET mid_point       == Len(values) \div 2
            first_half_avg  == TrueDiv(sum(SubSeq(values, 1, mid_point)), mid_point)
            second_half_avg == TrueDiv(sum(SubSeq(values, mid_point + 1, Len(values))),
                                       Len(values) - mid_point)
            diff            == FSub(second_half_avg, first_half_avg)
        IN  IF diff.s = 1 /\ AboveHalf(diff) THEN "improving"
            ELSE IF diff.s = -1 /\ AboveHalf(diff) THEN "declining"
            ELSE "stable"

DefaultTrendDays == 30

\* the 'date_range' of get_mood_trends: start from the last entry of the
\* window, end from the first
date_range(recent_entries) ==
    [start |-> date(recent_entries[Len(recent_entries)].timestamp),
     end   |-> date(recent_entries[1].timestamp)]

\* MoodTracker.get_mood_trends; an average is kept as the pair the division
\* is applied to, <<sum, len>>
get_mood_trends(es, clock, days) ==
    LET recent == get_recent_entries(es, clock, days)
        recent_entries == recent.value
    IN
    IF ~recent.ok THEN Raised(recent.error)
    ELSE IF recent_entries = <<>> THEN NoData
    ELSE
        LET mood_scores   == Field(recent_entries, "mood_score")
            stress_levels == Field(recent_entries, "stress_level")
            energy_levels == Field(recent_entries, "energy_level")
            sleep_hours   == Field(recent_entries, "sleep_hours")
        IN  [total_entries |-> Len(recent_entries),
             avg_mood      |-> <<sum(mood_scores), Len(mood_scores)>>,
             avg_stress    |-> <<sum(stress_levels), Len(stress_levels)>>,
             avg_energy    |-> <<sum(energy_levels), Len(energy_levels)>>,
             avg_sleep     |-> <<sum(sleep_hours), Len(sleep_hours)>>,
             mood_trend    |-> calculate_trend(mood_scores),
             date_range    |-> date_range(recent_entries)]

----------------------------------------------------------------------------
(* str: lower() as CPython computes it from the Unicode character database *)
(* (version 14.0 in Python 3.11).  A range <<first, last, step, delta>>    *)
(* holds the code points first, first + step, ... up to last, each mapped  *)
(* to itself plus delta; a range <<first, last>> holds every code point    *)
(* from first to last.                                                     *)

\* the code points whose lowercase form is one other code point: those of
\* ASCII and Latin-1, and those beyond
LowerLatin1 == {<<65, 90, 1, 32>>, <<192, 214, 1, 32>>, <<216, 222, 1, 32>>}

LowerRanges ==
    {
      <<256, 302, 2, 1>>, <<306, 310, 2, 1>>, <<313, 327, 2, 1>>,
      <<330, 374, 2, 1>>, <<376, 376, 1, -121>>, <<377, 381, 2, 1>>,
      <<385, 385, 1, 210>>, <<386, 388, 2, 1>>, <<390, 390, 1, 206>>,
      <<391, 391, 1, 1>>, <<393, 394, 1, 205>>, <<395, 395, 1, 1>>,
      <<398, 398, 1, 79>>, <<399, 399, 1, 202>>, <<400, 400, 1, 203>>,
      <<401, 401, 1, 1>>, <<403, 403, 1, 205>>, <<404, 404, 1, 207>>,
      <<406, 406, 1, 211>>, <<407, 407, 1, 209>>, <<408, 408, 1, 1>>,
      <<412, 412, 1, 211>>, <<413, 413, 1, 213>>, <<415, 415, 1, 214>>,
      <<416, 420, 2, 1>>, <<422, 422, 1, 218>>, <<423, 423, 1, 1>>,
      <<425, 425, 1, 218>>, <<428, 428, 1, 1>>, <<430, 430, 1, 218>>,
      <<431, 431, 1, 1>>, <<433, 434, 1, 217>>, <<435, 437, 2, 1>>,
      <<439, 439, 1, 219>>, <<440, 440, 1, 1>>, <<444, 444, 1, 1>>,
      <<452, 452, 1, 2>>, <<453, 453, 1, 1>>, <<455, 455, 1, 2>>,
      <<456, 456, 1, 1>>, <<458, 458, 1, 2>>, <<459, 475, 2, 1>>,
      <<478, 494, 2, 1>>, <<497, 497, 1, 2>>, <<498, 500, 2, 1>>,
      <<502, 502, 1, -97>>, <<503, 503, 1, -56>>, <<504, 542, 2, 1>>,
      <<544, 544, 1, -130>>, <<546, 562, 2, 1>>, <<570, 570, 1, 10795>>,
      <<571, 571, 1, 1>>, <<573, 573, 1, -163>>, <<574, 574, 1, 10792>>,
      <<577, 577, 1, 1>>, <<579, 579, 1, -195>>, <<580, 580, 1, 69>>,
      <<581, 581, 1, 71>>, <<582, 590, 2, 1>>, <<880, 882, 2, 1>>,
      <<886, 886, 1, 1>>, <<895, 895, 1, 116>>, <<902, 902, 1, 38>>,
      <<904, 906, 1, 37>>, <<908, 908, 1, 64>>, <<910, 911, 1, 63>>,
      <<913, 929, 1, 32>>, <<931, 939, 1, 32>>, <<975, 975, 1, 8>>,
      <<984, 1006, 2, 1>>, <<1012, 1012, 1, -60>>, <<1015, 1015, 1, 1>>,
      <<1017, 1017, 1, -7>>, <<1018, 1018, 1, 1>>, <<1021, 1023, 1, -130>>,
      <<1024, 1039, 1, 80>>, <<1040, 1071, 1, 32>>, <<1120, 1152, 2, 1>>,
      <<1162, 1214, 2, 1>>, <<1216, 1216, 1, 15>>, <<1217, 1229, 2, 1>>,
      <<1232, 1326, 2, 1>>, <<1329, 1366, 1, 48>>, <<4256, 4293, 1, 7264>>,
      <<4295, 4295, 1, 7264>>, <<4301, 4301, 1, 7264>>,
      <<5024, 5103, 1, 38864>>, <<5104, 5109, 1, 8>>,
      <<7312, 7354, 1, -3008>>, <<7357, 7359, 1, -3008>>,
      <<7680, 7828, 2, 1>>, <<7838, 7838, 1, -7615>>, <<7840, 7934, 2, 1>>,
      <<7944, 7951, 1, -8>>, <<7960, 7965, 1, -8>>, <<7976, 7983, 1, -8>>,
      <<7992, 7999, 1, -8>>, <<8008, 8013, 1, -8>>, <<8025, 8031, 2, -8>>,
      <<8040, 8047, 1, -8>>, <<8072, 8079, 1, -8>>, <<8088, 8095, 1, -8>>,
      <<8104, 8111, 1, -8>>, <<8120, 8121, 1, -8>>, <<8122, 8123, 1, -74>>,
      <<8124, 8124, 1, -9>>, <<8136, 8139, 1, -86>>, <<8140, 8140, 1, -9>>,
      <<8152, 8153, 1, -8>>, <<8154, 8155, 1, -100>>, <<8168, 8169, 1, -8>>,
      <<8170, 8171, 1, -112>>, <<8172, 8172, 1, -7>>,
      <<8184, 8185, 1, -128>>, <<8186, 8187, 1, -126>>,
      <<8188, 8188, 1, -9>>, <<8486, 8486, 1, -7517>>,
      <<8490, 8490, 1, -8383>>, <<8491, 8491, 1, -8262>>,
      <<8498, 8498, 1, 28>>, <<8544, 8559, 1, 16>>, <<8579, 8579, 1, 1>>,
      <<9398, 9423, 1, 26>>, <<11264, 11311, 1, 48>>,
      <<11360, 11360, 1, 1>>, <<11362, 11362, 1, -10743>>,
      <<11363, 11363, 1, -3814>>, <<11364, 11364, 1, -10727>>,
      <<11367, 11371, 2, 1>>, <<11373, 11373, 1, -10780>>,
      <<11374, 11374, 1, -10749>>, <<11375, 11375, 1, -10783>>,
      <<11376, 11376, 1, -10782>>, <<11378, 11378, 1, 1>>,
      <<11381, 11381, 1, 1>>, <<11390, 11391, 1, -10815>>,
      <<11392, 11490, 2, 1>>, <<11499, 11501, 2, 1>>,
      <<11506, 11506, 1, 1>>, <<42560, 42604, 2, 1>>,
      <<42624, 42650, 2, 1>>, <<42786, 42798, 2, 1>>,
      <<42802, 42862, 2, 1>>, <<42873, 42875, 2, 1>>,
      <<42877, 42877, 1, -35332>>, <<42878, 42886, 2, 1>>,
      <<42891, 42891, 1, 1>>, <<42893, 42893, 1, -42280>>,
      <<42896, 42898, 2, 1>>, <<42902, 42920, 2, 1>>,
      <<42922, 42922, 1, -42308>>, <<42923, 42923, 1, -42319>>,
      <<42924, 42924, 1, -42315>>, <<42925, 42925, 1, -42305>>,
      <<42926, 42926, 1, -42308>>, <<42928, 42928, 1, -42258>>,
      <<42929, 42929, 1, -42282>>, <<42930, 42930, 1, -42261>>,
      <<42931, 42931, 1, 928>>, <<42932, 42946, 2, 1>>,
      <<42948, 42948, 1, -48>>, <<42949, 42949, 1, -42307>>,
      <<42950, 42950, 1, -35384>>, <<42951, 42953, 2, 1>>,
      <<42960, 42960, 1, 1>>, <<42966, 42968, 2, 1>>,
      <<42997, 42997, 1, 1>>, <<65313, 65338, 1, 32>>,
      <<66560, 66599, 1, 40>>, <<66736, 66771, 1, 40>>,
      <<66928, 66938, 1, 39>>, <<66940, 66954, 1, 39>>,
      <<66956, 66962, 1, 39>>, <<66964, 66965, 1, 39>>,
      <<68736, 68786, 1, 64>>, <<71840, 71871, 1, 32>>,
      <<93760, 93791, 1, 32>>, <<125184, 125217, 1, 34>>
    }

\* the code points with the property Case_Ignorable
CaseIgnorable ==
    {
      <<39, 39>>, <<46, 46>>, <<58, 58>>, <<94, 94>>, <<96, 96>>,
      <<168, 168>>, <<173, 173>>, <<175, 175>>, <<180, 180>>, <<183, 184>>,
      <<688, 879>>, <<884, 885>>, <<890, 890>>, <<900, 901>>, <<903, 903>>,
      <<1155, 1161>>, <<1369, 1369>>, <<1375, 1375>>, <<1425, 1469>>,
      <<1471, 1471>>, <<1473, 1474>>, <<1476, 1477>>, <<1479, 1479>>,
      <<1524, 1524>>, <<1536, 1541>>, <<1552, 1562>>, <<1564, 1564>>,
      <<1600, 1600>>, <<1611, 1631>>, <<1648, 1648>>, <<1750, 1757>>,
      <<1759, 1768>>, <<1770, 1773>>, <<1807, 1807>>, <<1809, 1809>>,
      <<1840, 1866>>, <<1958, 1968>>, <<2027, 2037>>, <<2042, 2042>>,
      <<2045, 2045>>, <<2070, 2093>>, <<2137, 2139>>, <<2184, 2184>>,
      <<2192, 2193>>, <<2200, 2207>>, <<2249, 2306>>, <<2362, 2362>>,
      <<2364, 2364>>, <<2369, 2376>>, <<2381, 2381>>, <<2385, 2391>>,
      <<2402, 2403>>, <<2417, 2417>>, <<2433, 2433>>, <<2492, 2492>>,
      <<2497, 2500>>, <<2509, 2509>>, <<2530, 2531>>, <<2558, 2558>>,
      <<2561, 2562>>, <<2620, 2620>>, <<2625, 2626>>, <<2631, 2632>>,
      <<2635, 2637>>, <<2641, 2641>>, <<2672, 2673>>, <<2677, 2677>>,
      <<2689, 2690>>, <<2748, 2748>>, <<2753, 2757>>, <<2759, 2760>>,
      <<2765, 2765>>, <<2786, 2787>>, <<2810, 2815>>, <<2817, 2817>>,
      <<2876, 2876>>, <<2879, 2879>>, <<2881, 2884>>, <<2893, 2893>>,
      <<2901, 2902>>, <<2914, 2915>>, <<2946, 2946>>, <<3008, 3008>>,
      <<3021, 3021>>, <<3072, 3072>>, <<3076, 3076>>, <<3132, 3132>>,
      <<3134, 3136>>, <<3142, 3144>>, <<3146, 3149>>, <<3157, 3158>>,
      <<3170, 3171>>, <<3201, 3201>>, <<3260, 3260>>, <<3263, 3263>>,
      <<3270, 3270>>, <<3276, 3277>>, <<3298, 3299>>, <<3328, 3329>>,
      <<3387, 3388>>, <<3393, 3396>>, <<3405, 3405>>, <<3426, 3427>>,
      <<3457, 3457>>, <<3530, 3530>>, <<3538, 3540>>, <<3542, 3542>>,
      <<3633, 3633>>, <<3636, 3642>>, <<3654, 3662>>, <<3761, 3761>>,
      <<3764, 3772>>, <<3782, 3782>>, <<3784, 3789>>, <<3864, 3865>>,
      <<3893, 3893>>, <<3895, 3895>>, <<3897, 3897>>, <<3953, 3966>>,
      <<3968, 3972>>, <<3974, 3975>>, <<3981, 3991>>, <<3993, 4028>>,
      <<4038, 4038>>, <<4141, 4144>>, <<4146, 4151>>, <<4153, 4154>>,
      <<4157, 4158>>, <<4184, 4185>>, <<4190, 4192>>, <<4209, 4212>>,
      <<4226, 4226>>, <<4229, 4230>>, <<4237, 4237>>, <<4253, 4253>>,
      <<4348, 4348>>, <<4957, 4959>>, <<5906, 5908>>, <<5938, 5939>>,
      <<5970, 5971>>, <<6002, 6003>>, <<6068, 6069>>, <<6071, 6077>>,
      <<6086, 6086>>, <<6089, 6099>>, <<6103, 6103>>, <<6109, 6109>>,
      <<6155, 6159>>, <<6211, 6211>>, <<6277, 6278>>, <<6313, 6313>>,
      <<6432, 6434>>, <<6439, 6440>>, <<6450, 6450>>, <<6457, 6459>>,
      <<6679, 6680>>, <<6683, 6683>>, <<6742, 6742>>, <<6744, 6750>>,
      <<6752, 6752>>, <<6754, 6754>>, <<6757, 6764>>, <<6771, 6780>>,
      <<6783, 6783>>, <<6823, 6823>>, <<6832, 6862>>, <<6912, 6915>>,
      <<6964, 6964>>, <<6966, 6970>>, <<6972, 6972>>, <<6978, 6978>>,
      <<7019, 7027>>, <<7040, 7041>>, <<7074, 7077>>, <<7080, 7081>>,
      <<7083, 7085>>, <<7142, 7142>>, <<7144, 7145>>, <<7149, 7149>>,
      <<7151, 7153>>, <<7212, 7219>>, <<7222, 7223>>, <<7288, 7293>>,
      <<7376, 7378>>, <<7380, 7392>>, <<7394, 7400>>, <<7405, 7405>>,
      <<7412, 7412>>, <<7416, 7417>>, <<7468, 7530>>, <<7544, 7544>>,
      <<7579, 7679>>, <<8125, 8125>>, <<8127, 8129>>, <<8141, 8143>>,
      <<8157, 8159>>, <<8173, 8175>>, <<8189, 8190>>, <<8203, 8207>>,
      <<8216, 8217>>, <<8228, 8228>>, <<8231, 8231>>, <<8234, 8238>>,
      <<8288, 8292>>, <<8294, 8303>>, <<8305, 8305>>, <<8319, 8319>>,
      <<8336, 8348>>, <<8400, 8432>>, <<11388, 11389>>, <<11503, 11505>>,
      <<11631, 11631>>, <<11647, 11647>>, <<11744, 11775>>,
      <<11823, 11823>>, <<12293, 12293>>, <<12330, 12333>>,
      <<12337, 12341>>, <<12347, 12347>>, <<12441, 12446>>,
      <<12540, 12542>>, <<40981, 40981>>, <<42232, 42237>>,
      <<42508, 42508>>, <<42607, 42610>>, <<42612, 42621>>,
      <<42623, 42623>>, <<42652, 42655>>, <<42736, 42737>>,
      <<42752, 42785>>, <<42864, 42864>>, <<42888, 42890>>,
      <<42994, 42996>>, <<43000, 43001>>, <<43010, 43010>>,
      <<43014, 43014>>, <<43019, 43019>>, <<43045, 43046>>,
      <<43052, 43052>>, <<43204, 43205>>, <<43232, 43249>>,
      <<43263, 43263>>, <<43302, 43309>>, <<43335, 43345>>,
      <<43392, 43394>>, <<43443, 43443>>, <<43446, 43449>>,
      <<43452, 43453>>, <<43471, 43471>>, <<43493, 43494>>,
      <<43561, 43566>>, <<43569, 43570>>, <<43573, 43574>>,
      <<43587, 43587>>, <<43596, 43596>>, <<43632, 43632>>,
      <<43644, 43644>>, <<43696, 43696>>, <<43698, 43700>>,
      <<43703, 43704>>, <<43710, 43711>>, <<43713, 43713>>,
      <<43741, 43741>>, <<43756, 43757>>, <<43763, 43764>>,
      <<43766, 43766>>, <<43867, 43871>>, <<43881, 43883>>,
      <<44005, 44005>>, <<44008, 44008>>, <<44013, 44013>>,
      <<64286, 64286>>, <<64434, 64450>>, <<65024, 65039>>,
      <<65043, 65043>>, <<65056, 65071>>, <<65106, 65106>>,
      <<65109, 65109>>, <<65279, 65279>>, <<65287, 65287>>,
      <<65294, 65294>>, <<65306, 65306>>, <<65342, 65342>>,
      <<65344, 65344>>, <<65392, 65392>>, <<65438, 65439>>,
      <<65507, 65507>>, <<65529, 65531>>, <<66045, 66045>>,
      <<66272, 66272>>, <<66422, 66426>>, <<67456, 67461>>,
      <<67463, 67504>>, <<67506, 67514>>, <<68097, 68099>>,
      <<68101, 68102>>, <<68108, 68111>>, <<68152, 68154>>,
      <<68159, 68159>>, <<68325, 68326>>, <<68900, 68903>>,
      <<69291, 69292>>, <<69446, 69456>>, <<69506, 69509>>,
      <<69633, 69633>>, <<69688, 69702>>, <<69744, 69744>>,
      <<69747, 69748>>, <<69759, 69761>>, <<69811, 69814>>,
      <<69817, 69818>>, <<69821, 69821>>, <<69826, 69826>>,
      <<69837, 69837>>, <<69888, 69890>>, <<69927, 69931>>,
      <<69933, 69940>>, <<70003, 70003>>, <<70016, 70017>>,
      <<70070, 70078>>, <<70089, 70092>>, <<70095, 70095>>,
      <<70191, 70193>>, <<70196, 70196>>, <<70198, 70199>>,
      <<70206, 70206>>, <<70367, 70367>>, <<70371, 70378>>,
      <<70400, 70401>>, <<70459, 70460>>, <<70464, 70464>>,
      <<70502, 70508>>, <<70512, 70516>>, <<70712, 70719>>,
      <<70722, 70724>>, <<70726, 70726>>, <<70750, 70750>>,
      <<70835, 70840>>, <<70842, 70842>>, <<70847, 70848>>,
      <<70850, 70851>>, <<71090, 71093>>, <<71100, 71101>>,
      <<71103, 71104>>, <<71132, 71133>>, <<71219, 71226>>,
      <<71229, 71229>>, <<71231, 71232>>, <<71339, 71339>>,
      <<71341, 71341>>, <<71344, 71349>>, <<71351, 71351>>,
      <<71453, 71455>>, <<71458, 71461>>, <<71463, 71467>>,
      <<71727, 71735>>, <<71737, 71738>>, <<71995, 71996>>,
      <<71998, 71998>>, <<72003, 72003>>, <<72148, 72151>>,
      <<72154, 72155>>, <<72160, 72160>>, <<72193, 72202>>,
      <<72243, 72248>>, <<72251, 72254>>, <<72263, 72263>>,
      <<72273, 72278>>, <<72281, 72283>>, <<72330, 72342>>,
      <<72344, 72345>>, <<72752, 72758>>, <<72760, 72765>>,
      <<72767, 72767>>, <<72850, 72871>>, <<72874, 72880>>,
      <<72882, 72883>>, <<72885, 72886>>, <<73009, 73014>>,
      <<73018, 73018>>, <<73020, 73021>>, <<73023, 73029>>,
      <<73031, 73031>>, <<73104, 73105>>, <<73109, 73109>>,
      <<73111, 73111>>, <<73459, 73460>>, <<78896, 78904>>,
      <<92912, 92916>>, <<92976, 92982>>, <<92992, 92995>>,
      <<94031, 94031>>, <<94095, 94111>>, <<94176, 94177>>,
      <<94179, 94180>>, <<110576, 110579>>, <<110581, 110587>>,
      <<110589, 110590>>, <<113821, 113822>>, <<113824, 113827>>,
      <<118528, 118573>>, <<118576, 118598>>, <<119143, 119145>>,
      <<119155, 119170>>, <<119173, 119179>>, <<119210, 119213>>,
      <<119362, 119364>>, <<121344, 121398>>, <<121403, 121452>>,
      <<121461, 121461>>, <<121476, 121476>>, <<121499, 121503>>,
      <<121505, 121519>>, <<122880, 122886>>, <<122888, 122904>>,
      <<122907, 122913>>, <<122915, 122916>>, <<122918, 122922>>,
      <<123184, 123197>>, <<123566, 123566>>, <<123628, 123631>>,
      <<125136, 125142>>, <<125252, 125259>>, <<127995, 127999>>,
      <<917505, 917505>>, <<917536, 917631>>, <<917760, 917999>>
    }

\* the code points with the property Cased
Cased ==
    {
      <<65, 90>>, <<97, 122>>, <<170, 170>>, <<181, 181>>, <<186, 186>>,
      <<192, 214>>, <<216, 246>>, <<248, 442>>, <<444, 447>>, <<452, 659>>,
      <<661, 696>>, <<704, 705>>, <<736, 740>>, <<837, 837>>, <<880, 883>>,
      <<886, 887>>, <<890, 893>>, <<895, 895>>, <<902, 902>>, <<904, 906>>,
      <<908, 908>>, <<910, 929>>, <<931, 1013>>, <<1015, 1153>>,
      <<1162, 1327>>, <<1329, 1366>>, <<1376, 1416>>, <<4256, 4293>>,
      <<4295, 4295>>, <<4301, 4301>>, <<4304, 4346>>, <<4349, 4351>>,
      <<5024, 5109>>, <<5112, 5117>>, <<7296, 7304>>, <<7312, 7354>>,
      <<7357, 7359>>, <<7424, 7615>>, <<7680, 7957>>, <<7960, 7965>>,
      <<7968, 8005>>, <<8008, 8013>>, <<8016, 8023>>, <<8025, 8025>>,
      <<8027, 8027>>, <<8029, 8029>>, <<8031, 8061>>, <<8064, 8116>>,
      <<8118, 8124>>, <<8126, 8126>>, <<8130, 8132>>, <<8134, 8140>>,
      <<8144, 8147>>, <<8150, 8155>>, <<8160, 8172>>, <<8178, 8180>>,
      <<8182, 8188>>, <<8305, 8305>>, <<8319, 8319>>, <<8336, 8348>>,
      <<8450, 8450>>, <<8455, 8455>>, <<8458, 8467>>, <<8469, 8469>>,
      <<8473, 8477>>, <<8484, 8484>>, <<8486, 8486>>, <<8488, 8488>>,
      <<8490, 8493>>, <<8495, 8500>>, <<8505, 8505>>, <<8508, 8511>>,
      <<8517, 8521>>, <<8526, 8526>>, <<8544, 8575>>, <<8579, 8580>>,
      <<9398, 9449>>, <<11264, 11492>>, <<11499, 11502>>, <<11506, 11507>>,
      <<11520, 11557>>, <<11559, 11559>>, <<11565, 11565>>,
      <<42560, 42605>>, <<42624, 42653>>, <<42786, 42887>>,
      <<42891, 42894>>, <<42896, 42954>>, <<42960, 42961>>,
      <<42963, 42963>>, <<42965, 42969>>, <<42997, 42998>>,
      <<43000, 43002>>, <<43824, 43866>>, <<43868, 43880>>,
      <<43888, 43967>>, <<64256, 64262>>, <<64275, 64279>>,
      <<65313, 65338>>, <<65345, 65370>>, <<66560, 66639>>,
      <<66736, 66771>>, <<66776, 66811>>, <<66928, 66938>>,
      <<66940, 66954>>, <<66956, 66962>>, <<66964, 66965>>,
      <<66967, 66977>>, <<66979, 66993>>, <<66995, 67001>>,
      <<67003, 67004>>, <<67456, 67456>>, <<67459, 67461>>,
      <<67463, 67504>>, <<67506, 67514>>, <<68736, 68786>>,
      <<68800, 68850>>, <<71840, 71903>>, <<93760, 93823>>,
      <<119808, 119892>>, <<119894, 119964>>, <<119966, 119967>>,
      <<119970, 119970>>, <<119973, 119974>>, <<119977, 119980>>,
      <<119982, 119993>>, <<119995, 119995>>, <<119997, 120003>>,
      <<120005, 120069>>, <<120071, 120074>>, <<120077, 120084>>,
      <<120086, 120092>>, <<120094, 120121>>, <<120123, 120126>>,
      <<120128, 120132>>, <<120134, 120134>>, <<120138, 120144>>,
      <<120146, 120485>>, <<120488, 120512>>, <<120514, 120538>>,
      <<120540, 120570>>, <<120572, 120596>>, <<120598, 120628>>,
      <<120630, 120654>>, <<120656, 120686>>, <<120688, 120712>>,
      <<120714, 120744>>, <<120746, 120770>>, <<120772, 120779>>,
      <<122624, 122633>>, <<122635, 122654>>, <<125184, 125251>>,
      <<127280, 127305>>, <<127312, 127337>>, <<127344, 127369>>
    }

\* GREEK CAPITAL LETTER SIGMA and its two lowercase forms, LATIN CAPITAL
\* LETTER I WITH DOT ABOVE and the two code points of its lowercase form
CapitalSigma == 931
FinalSigma == 962
SmallSigma == 963
CapitalDottedI == 304
SmallI == 105
CombiningDotAbove == 775

IsCaseIgnorable(c) == \E r \in CaseIgnorable : r[1] <= c /\ c <= r[2]

IsCased(c) == \E r \in Cased : r[1] <= c /\ c <= r[2]

\* the sigma at place i of the text ends a word: the nearest character
\* before it that is not case-ignorable is cased, and the nearest one after
\* it, if any, is not
final_sigma(text, i) ==
    LET before == {j \in 1..(i - 1) : ~IsCaseIgnorable(text[j])}
        after  == {j \in (i + 1)..Len(text) : ~IsCaseIgnorable(text[j])}
    IN  /\ before # {}
        /\ IsCased(text[CHOOSE j \in before : \A l \in before : l <= j])
        /\ \/ after = {}
           \/ ~IsCased(text[CHOOSE j \in after : \A l \in after : j <= l])

\* the lowercase form of the character at place i of the text
lower_char(text, i) ==
    LET c == text[i]
        r == {x \in (IF c < 256 THEN LowerLatin1 ELSE LowerRanges) :
                 x[1] <= c /\ c <= x[2] /\ (c - x[1]) % x[3] = 0}
    IN  IF c = CapitalSigma
        THEN <<IF final_sigma(text, i) THEN FinalSigma ELSE SmallSigma>>
        ELSE IF c = CapitalDottedI THEN <<SmallI, CombiningDotAbove>>
        ELSE IF r = {} THEN <<c>>
        ELSE <<c + (CHOOSE x \in r : TRUE)[4]>>

\* the texts of a sequence, one after the other
RECURSIVE Join(_)
Join(texts) == IF texts = <<>> THEN <<>> ELSE Head(texts) \o Join(Tail(texts))

\* str.lower()
lower(text) == Join([i \in 1..Len(text) |-> lower_char(text, i)])

----------------------------------------------------------------------------
(* Tag search and pattern analysis *)

DefaultRecentDays == 7

\* "tag.lower() in [t.lower() for t in entry.tags]" on one entry: tag.lower()
\* comes first, AttributeError when tag is no str; then the list, TypeError
\* when the tags cannot be iterated and AttributeError when an element is no
\* str; then the comparison of the texts
tag_in_tags(tag, tags) ==
    LET it == Iterate(tags) IN
    IF tag.k # "str" THEN [ok |-> FALSE, error |-> "AttributeError", value |-> FALSE]
    ELSE IF ~it.ok THEN [ok |-> FALSE, error |-> "TypeError", value |-> FALSE]
    ELSE IF \E i \in 1..Len(it.items) : it.items[i].k # "str"
    THEN [ok |-> FALSE, error |-> "AttributeError", value |-> FALSE]
    ELSE LET lowered == lower(tag.v)
         IN  [ok    |-> TRUE,
              error |-> "",
              value |-> \E i \in 1..Len(it.items) : lowered = lower(it.items[i].v)]

\* MoodTracker.search_entries_by_tag: the entries with a tag equal to the
\* one given when both are lowercased, in list order.  ok = FALSE stands for
\* the exception it raises: that of the first entry on which the test fails
search_entries_by_tag(es, tag) ==
    LET bad == {i \in 1..Len(es) : ~tag_in_tags(tag, es[i].tags).ok} IN
    IF bad # {}
    THEN [ok    |-> FALSE,
          error |-> tag_in_tags(tag, es[CHOOSE i \in bad : \A j \in bad : i <= j].tags).error,
          value |-> <<>>]
    ELSE [ok    |-> TRUE,
          error |-> "",
          value |-> SelectSeq(es, LAMBDA entry : tag_in_tags(tag, entry.tags).value)]

\* datetime.weekday(): Monday is 0; day 0, the first of January of year 1,
\* is a Monday
weekday(ts) == date(ts) % 7

weekdays == <<"Monday", "Tuesday", "Wednesday", "Thursday", "Friday", "Saturday", "Sunday">>

None == [none |-> TRUE]

\* the mood scores of the entries of weekday i, in list order
weekday_moods(es, i) ==
    Field(SelectSeq(es, LAMBDA entry : weekday(entry.timestamp) = i), "mood_score")

\* averages that report an empty weekday as a mean of zero
weekday_averages_zero(es) ==
    [day \in {weekdays[k] : k \in 1..7} |->
        LET i     == CHOOSE k \in 0..6 : weekdays[k + 1] = day
            moods == weekday_moods(es, i)
        IN  IF moods # <<>> THEN [sum |-> sum(moods), len |-> Len(moods)]
            ELSE [sum |-> 0, len |-> 1]]

\* the 'weekday_averages' of get_mood_patterns; a mean is kept as the sum
\* and the length the division is applied to
weekday_averages(es) ==
    [day \in {weekdays[k] : k \in 1..7} |->
        LET i     == CHOOSE k \in 0..6 : weekdays[k + 1] = day
            moods == weekday_moods(es, i)
        IN  IF moods # <<>> THEN [sum |-> sum(moods), len |-> Len(moods)]
            ELSE None]

\* all_tags: what all_tags.extend(entry.tags) gathers over the entries, one
\* after the other: the elements of a list, the characters of a str, the
\* keys of a dict
RECURSIVE all_tags(_)
all_tags(es) ==
    IF es = <<>> THEN <<>> ELSE Iterate(Head(es).tags).items \o all_tags(Tail(es))

\* tag_counts: a dict keeps its keys in the order of their first insertion,
\* and the key first inserted stands for every key equal to it; it is the
\* sequence of its (tag, count) items
RECURSIVE tag_counts(_)
tag_counts(tags) ==
    IF tags = <<>> THEN <<>>
    ELSE
        LET counted == tag_counts(SubSeq(tags, 1, Len(tags) - 1))
            tag     == tags[Len(tags)]
        IN  IF \E i \in 1..Len(counted) : PyEq(counted[i][1], tag)
            THEN [i \in 1..Len(counted) |->
                    IF PyEq(counted[i][1], tag)
                    THEN <<counted[i][1], counted[i][2] + 1>> ELSE counted[i]]
            ELSE Append(counted, <<tag, 1>>)

\* a sort by count, descending, that puts the later of two equal counts first
RECURSIVE sorted_by_count_unstable(_)
sorted_by_count_unstable(items) ==
    IF items = <<>> THEN <<>>
    ELSE
        LET rest  == sorted_by_count_unstable(Tail(items))
            x     == Head(items)
            ahead == Cardinality({i \in 1..Len(rest) : rest[i][2] >= x[2]})
        IN  SubSeq(rest, 1, ahead) \o <<x>> \o SubSeq(rest, ahead + 1, Len(rest))

\* sorted(items, key=lambda x: x[1], reverse=True): by count, descending;
\* the sort is stable, so equal counts keep the order they had
RECURSIVE sorted_by_count(_)
sorted_by_count(items) ==
    IF items = <<>> THEN <<>>
    ELSE
        LET rest  == sorted_by_count(Tail(items))
            x     == Head(items)
            ahead == Cardinality({i \in 1..Len(rest) : rest[i][2] > x[2]})
        IN  SubSeq(rest, 1, ahead) \o <<x>> \o SubSeq(rest, ahead + 1, Len(rest))

TopTags == 10

\* the 'common_tags' of get_mood_patterns
common_tags(es) ==
    LET ranked == sorted_by_count(tag_counts(all_tags(es)))
    IN  SubSeq(ranked, 1, IF Len(ranked) < TopTags THEN Len(ranked) ELSE TopTags)

\* MoodTracker.get_mood_patterns; it raises TypeError on tags that cannot be
\* iterated (extend) and on a tag that cannot be hashed (tag_counts)
get_mood_patterns(es) ==
    IF es = <<>> THEN NoData
    ELSE IF \E i \in 1..Len(es) : ~Iterate(es[i].tags).ok THEN Raised("TypeError")
    ELSE IF \E i \in 1..Len(all_tags(es)) : ~Hashable(all_tags(es)[i])
    THEN Raised("TypeError")
    ELSE [weekday_averages |-> weekday_averages(es),
          common_tags      |-> common_tags(es),
          total_entries    |-> Len(es)]

----------------------------------------------------------------------------
(* Inputs *)

\* texts: 'work', 'Work', 'WORK', 'rest', 'REST', 'spaß', 'Spaß', 'SPASS',
\* '#1', the Greek 'ΟΣ', 'abc' and 'n'
work  == <<119, 111, 114, 107>>
Work  == <<87, 111, 114, 107>>
WORK  == <<87, 79, 82, 75>>
rest  == <<114, 101, 115, 116>>
REST  == <<82, 69, 83, 84>>
spasz == <<115, 112, 97, 223>>
Spasz == <<83, 112, 97, 223>>
SPASS == <<83, 80, 65, 83, 83>>
hash1 == <<35, 49>>
OS    == <<927, 931>>
abc   == <<97, 98, 99>>
note  == <<110>>

\* arguments of MoodEntry(...): some keywords given, with values outside the
\* 1-10 scale, the others left to their defaults
EntryArgs ==
    { [mood_score |-> 11, stress_level |-> 0,
       tags |-> JArr(<<JStr(Work), JStr(work)>>)] }

\* arguments of MoodEntry(...) with tags that are no list: a str, an int
OtherArgs ==
    { [mood_score |-> 5, tags |-> t] : t \in {JStr(abc), JNum(7)} }

\* elements of an import document
JFull ==
    JObj([timestamp |-> <<StartDay + 1, 1, 1>>, mood_score |-> 9, notes |-> note,
          stress_level |-> 2, energy_level |-> 8, sleep_hours |-> 15,
          tags |-> JArr(<<JStr(rest)>>)])
JEarly    == JObj([timestamp |-> <<0>>, mood_score |-> 0, tags |-> JArr(<<JStr(Spasz)>>)])
JMinimal  == JObj([mood_score |-> 4])
JNoMood   == JObj([timestamp |-> <<0, 0>>, stress_level |-> 3])
JBadTime  == JObj([timestamp |-> <<0, SecsPerDay>>, mood_score |-> 4])
\* '0001-01-31T00:00:00+00:00' and the like: a timestamp with a UTC offset
JAware    == JObj([timestamp |-> <<StartDay, 0, 0, 0>>, mood_score |-> 5])
\* "tags": null, "tags": "" and "tags": 0
JNoTags   == JObj([timestamp |-> <<StartDay>>, mood_score |-> 6, tags |-> JNull])
JFalseTags ==
    {JObj([timestamp |-> <<StartDay>>, mood_score |-> 6, tags |-> t]) :
        t \in {JStr(<<>>), JNum(0)}}
\* "tags": "abc", "tags": 7 and "tags": {"abc": 1}
JOtherTags ==
    {JObj([timestamp |-> <<StartDay>>, mood_score |-> 6, tags |-> t]) :
        t \in {JStr(abc), JNum(7), JDict(<<<<abc, JNum(1)>>>>)}}
\* '10000-01-01', the day after datetime.max, and an offset of a day
JLateTime == JObj([timestamp |-> <<MaxDay + 1>>, mood_score |-> 4])
JBadZone  == JObj([timestamp |-> <<StartDay, 0, 0, MaxOffset + 1>>, mood_score |-> 4])

GoodItems == {JFull, JEarly, JMinimal}
BadItems  == {JNoMood, JBadTime, JNum(5)}

SeqsUpTo(S, n) == UNION {[1..k -> S] : k \in 0..n}

\* texts that are arrays of well-formed entries
WellFormedTexts ==
    {json_dumps(JArr(a)) : a \in SeqsUpTo(GoodItems, MaxImportLen)}

\* the other texts: arrays with one bad entry at either end, arrays of one
\* entry of a less usual shape, documents that are no array, and a text
\* that is not JSON
OtherTexts ==
    {json_dumps(JArr(a)) :
        a \in UNION {{<<b>>, <<b, JMinimal>>, <<JMinimal, b>>} : b \in BadItems}}
    \cup {json_dumps(JArr(<<b>>)) :
            b \in {JAware, JNoTags, JLateTime, JBadZone} \cup JFalseTags \cup JOtherTags}
    \cup {json_dumps(d) :
            d \in {JDict(<<>>), JObj([mood_score |-> 5]), JStr(<<>>), JStr(abc),
                   JNum(5), JNull}}
    \cup {[valid |-> FALSE, doc |-> JNull]}

\* a window that reaches back before datetime.min whatever the clock reads,
\* and a negative one that reaches beyond datetime.max
FarDays == StartDay + 1
AheadDays == 0 - MaxDay

WindowDays == {0, 1, DefaultTrendDays, FarDays, AheadDays}

\* arguments of get_recent_entries(...): days left out, or given
RecentArgs == {<<>>} \cup {[days |-> d] : d \in {0, 1, StartDay, FarDays}}

\* arguments of search_entries_by_tag
TagArgs == {JStr(t) : t \in {work, Work, WORK, rest, REST, spasz, hash1, OS}}

\* no gateway, a SheetsAPI, a gateway of the caller's own, and one of the
\* caller's own whose bool() is false
GatewayKinds == {"none", "sheets", "custom", "falsy"}

NoText == [valid |-> FALSE, doc |-> JNull]

Plain(result) == [result |-> result, effect |-> "none", text |-> NoText]

\* what the append of the injected gateway can do on one call: return,
\* raise an Exception, raise another exception; a gateway of the caller's
\* own may also call back into the tracker or change the record
GatewayOutcomes(kind, mood_entry) ==
    CASE kind = "sheets" ->
            {Plain(add_mood_entry(mood_entry, c, x)) :
                c \in BOOLEAN, x \in {"ok", "Exception", "BaseException"}}
      [] kind = "custom" ->
            {Plain(r) : r \in {"True", "False", "raise", "raise_base"}}
            \cup {[result |-> "True", effect |-> "import",
                   text |-> json_dumps(JArr(<<JMinimal>>))],
                  [result |-> "True", effect |-> "mutate", text |-> NoText]}
      [] OTHER -> {Plain("absent")}

\* the texts a caller hands to MoodEntry.from_dict to make an entry
HeldItems == {JFull}

\* how far the clock moves between two readings within one call
ClockSteps == {0, 1}

----------------------------------------------------------------------------
(* The tracker as a state machine *)

Init ==
    /\ now = StartTime
    /\ entries = <<>>
    /\ sheets_api \in GatewayKinds
    /\ held = {}
    /\ ret = [op |-> "init"]
    /\ series = <<>>
    /\ trend = "none"
    /\ offered = <<>>

\* time passes
Tick ==
    /\ now < StartTime + MaxTicks
    /\ now' = now + 1
    /\ ret' = [op |-> "tick"]
    /\ UNCHANGED <<entries, sheets_api, held, series, trend, offered>>

\* the wall clock is set back: datetime.now() is naive local time, which
\* repeats an hour at the end of daylight saving time and follows every
\* correction of the system clock
SetBack ==
    /\ now > StartTime
    /\ now' = now - 1
    /\ ret' = [op |-> "set_back"]
    /\ UNCHANGED <<entries, sheets_api, held, series, trend, offered>>

\* the caller constructs a MoodEntry and keeps it, dropping one it held
\* when it holds MaxHeld already
Construct ==
    \E args \in EntryArgs :
        LET e == MoodEntry_init(args, now) IN
        /\ e \notin held
        /\ IF Cardinality(held) < MaxHeld
           THEN held' = held \cup {e}
           ELSE \E old \in held : held' = (held \ {old}) \cup {e}
        /\ ret' = [op |-> "construct", arg |-> args]
        /\ UNCHANGED <<now, entries, sheets_api, series, trend, offered>>

\* the caller constructs a MoodEntry with tags that are no list
ConstructOther ==
    \E args \in OtherArgs :
        LET e == MoodEntry_init(args, now) IN
        /\ e \notin held
        /\ IF Cardinality(held) < MaxHeld
           THEN held' = held \cup {e}
           ELSE \E old \in held : held' = (held \ {old}) \cup {e}
        /\ ret' = [op |-> "construct", arg |-> args]
        /\ UNCHANGED <<now, entries, sheets_api, series, trend, offered>>

\* the caller makes a MoodEntry with MoodEntry.from_dict and keeps it
ConstructFromDict ==
    \E data \in HeldItems :
        LET r == from_dict(data, now) IN
        /\ r.ok
        /\ r.entry \notin held
        /\ IF Cardinality(held) < MaxHeld
           THEN held' = held \cup {r.entry}
           ELSE \E old \in held : held' = (held \ {old}) \cup {r.entry}
        /\ ret' = [op |-> "from_dict", arg |-> data]
        /\ UNCHANGED <<now, entries, sheets_api, series, trend, offered>>

\* the places of the list an add filled with an object equal to e: e itself
\* may be what sits there, when the caller adds an object again
SamePlaces(es, e, calls) ==
    {p \in 1..Len(es) :
        es[p] = e /\ \E i \in 1..Len(calls) : Len(calls[i].store) = p}

\* tracker.add_entry(e) on an entry the caller holds; a gateway that changes
\* the record changes the object the caller holds
Add ==
    \E e \in held : \E outcome \in GatewayOutcomes(sheets_api, e) :
        \E same \in (IF outcome.effect = "mutate"
                     THEN SUBSET SamePlaces(entries, e, offered) ELSE {{}}) :
            LET r == add_entry(entries, sheets_api, e, outcome, now, same) IN
            /\ Len(r.entries) <= MaxEntries
            /\ entries' = r.entries
            /\ offered' = offered \o r.calls
            /\ held' = IF outcome.effect = "mutate"
                       THEN (held \ {e}) \cup {Mutated(e)} ELSE held
            /\ ret' = [op |-> "add", arg |-> e, gateway |-> outcome,
                       before |-> entries, result |-> r.result]
            /\ UNCHANGED <<now, sheets_api, series, trend>>

\* the number of elements an import of the text converts, each with a
\* reading of the clock
item_count(text) ==
    LET data == json_loads(text) IN
    IF ~data.ok THEN 0
    ELSE LET it == Iterate(data.value) IN IF it.ok THEN Len(it.items) ELSE 0

\* the clock after a call that read it n times, step ticks apart
ClockAfter(clock, step, n) == IF n > 1 THEN Reading(clock, step, n) ELSE clock

\* the ways the clock can move during an import of the text: it shows only
\* with two readings or more
StepsOf(text) == IF item_count(text) > 1 THEN ClockSteps ELSE {0}

\* tracker.import_data(text) on a well-formed text or on the tracker's own
\* export, while the clock moves; the texts are those whose entries the
\* store has room for
Import ==
    \E text \in WellFormedTexts \cup {export_data(entries)} : \E step \in StepsOf(text) :
        LET r == import_data(entries, text, now, step) IN
        /\ Len(entries) + item_count(text) <= MaxEntries
        /\ ClockAfter(now, step, item_count(text)) <= StartTime + MaxTicks
        /\ Len(r.entries) <= MaxEntries
        /\ entries' = r.entries
        /\ now' = ClockAfter(now, step, item_count(text))
        /\ ret' = [op |-> "import", arg |-> text, before |-> entries,
                   clock |-> now, step |-> step, result |-> r.result]
        /\ UNCHANGED <<sheets_api, held, series, trend, offered>>

\* tracker.import_data(text) on any other text
ImportOther ==
    \E text \in OtherTexts : \E step \in StepsOf(text) :
        LET r == import_data(entries, text, now, step) IN
        /\ ClockAfter(now, step, item_count(text)) <= StartTime + MaxTicks
        /\ Len(r.entries) <= MaxEntries
        /\ entries' = r.entries
        /\ now' = ClockAfter(now, step, item_count(text))
        /\ ret' = [op |-> "import", arg |-> text, before |-> entries,
                   clock |-> now, step |-> step, result |-> r.result]
        /\ UNCHANGED <<sheets_api, held, series, trend, offered>>

\* tracker.get_mood_trends(days)
Trends ==
    \E days \in WindowDays :
        /\ ret' = [op |-> "trends", arg |-> days,
                   result |-> get_mood_trends(entries, now, days)]
        /\ UNCHANGED <<now, entries, sheets_api, held, series, trend, offered>>

\* MoodTracker().import_data(tracker.export_data()): the export of this
\* tracker imported into a fresh one
ExportImport ==
    LET text == export_data(entries)
        r    == import_data(<<>>, text, now, 0)
    IN  /\ ret' = [op |-> "export_import", arg |-> text, source |-> entries,
                   fresh |-> r.entries, result |-> r.result]
        /\ UNCHANGED <<now, entries, sheets_api, held, series, trend, offered>>

\* tracker.get_recent_entries(days), tracker.get_recent_entries()
Recent ==
    \E args \in RecentArgs :
        /\ ret' = [op |-> "recent", arg |-> args,
                   result |-> get_recent_entries(entries, now,
                                                 Arg(args, "days", DefaultRecentDays))]
        /\ UNCHANGED <<now, entries, sheets_api, held, series, trend, offered>>

\* tracker.search_entries_by_tag(tag)
ByTag ==
    \E tag \in TagArgs :
        /\ ret' = [op |-> "by_tag", arg |-> tag,
                   result |-> search_entries_by_tag(entries, tag)]
        /\ UNCHANGED <<now, entries, sheets_api, held, series, trend, offered>>

\* tracker.get_mood_patterns()
Patterns ==
    /\ ret' = [op |-> "patterns", result |-> get_mood_patterns(entries)]
    /\ UNCHANGED <<now, entries, sheets_api, held, series, trend, offered>>

\* tracker.export_data()
Export ==
    /\ ret' = [op |-> "export", result |-> export_data(entries)]
    /\ UNCHANGED <<now, entries, sheets_api, held, series, trend, offered>>

\* the store and the operations that change it
Next == Tick \/ SetBack \/ Construct \/ ConstructFromDict \/ Add \/ Import

Spec == Init /\ [][Next]_vars

\* the adds of a tracker with each kind of gateway
NextGateway == Construct \/ ConstructOther \/ ConstructFromDict \/ Add

SpecGateway == Init /\ [][NextGateway]_vars

\* a tracker without gateway that imports texts of every kind
InitImport ==
    /\ now = StartTime
    /\ entries = <<>>
    /\ sheets_api = "none"
    /\ held = {}
    /\ ret = [op |-> "init"]
    /\ series = <<>>
    /\ trend = "none"
    /\ offered = <<>>

NextImport == Tick \/ SetBack \/ Import \/ ImportOther

SpecImport == InitImport /\ [][NextImport]_vars

\* a tracker without gateway under a clock that moves both ways: records of
\* MoodEntry(...) added, texts imported
NextStamps == Tick \/ SetBack \/ Construct \/ Add \/ Import

SpecStamps == InitImport /\ [][NextStamps]_vars

\* a tracker without gateway whose store, filled by adds and by imports of
\* every kind of text, is exported and imported into a fresh tracker
NextExport ==
    \/ Tick \/ Construct \/ ConstructFromDict \/ Add
    \/ Import \/ ImportOther \/ ExportImport

SpecExport == InitImport /\ [][NextExport]_vars

\* ... with the trend summary
NextTrends == Next \/ Trends

SpecTrends == Init /\ [][NextTrends]_vars

\* ... with the tag search
NextTags == Next \/ ByTag

SpecTags == Init /\ [][NextTags]_vars

\* ... with the two summaries
NextSummaries == Next \/ Trends \/ Patterns

SpecSummaries == Init /\ [][NextSummaries]_vars

\* every operation of a tracker with a gateway of the caller's own
InitAll ==
    /\ now = StartTime
    /\ entries = <<>>
    /\ sheets_api = "custom"
    /\ held = {}
    /\ ret = [op |-> "init"]
    /\ series = <<>>
    /\ trend = "none"
    /\ offered = <<>>

NextAll ==
    \/ Tick \/ Construct \/ Add \/ Import \/ ImportOther
    \/ Recent \/ ByTag \/ Trends \/ Patterns \/ Export

SpecAll == InitAll /\ [][NextAll]_vars

----------------------------------------------------------------------------
(* _calculate_trend called on a series of its own *)

MaxShortLen == 4
MaxSeriesLen == 12

TrendScores == {1, 2, 3, 5}

ScenarioA == <<3, 3, 4, 8, 9, 9>>

\* the series of length n that rise (or fall) through three levels
Stepped(n, a, b, c) ==
    {[i \in 1..n |-> IF i <= p THEN a ELSE IF i <= p + q THEN b ELSE c] :
        p \in 0..n, q \in 0..n}

SeriesInputs ==
    SeqsUpTo(TrendScores, MaxShortLen)
    \cup UNION {Stepped(n, 1, 2, 3) \cup Stepped(n, 3, 2, 1) :
                    n \in (MaxShortLen + 1)..MaxSeriesLen}
    \cup {ScenarioA}

InitTrend ==
    /\ now = StartTime
    /\ entries = <<>>
    /\ sheets_api = "none"
    /\ held = {}
    /\ ret = [op |-> "init"]
    /\ series \in SeriesInputs
    /\ trend = "none"
    /\ offered = <<>>

CalculateTrend ==
    /\ trend = "none"
    /\ trend' = calculate_trend(series)
    /\ ret' = [op |-> "calculate_trend"]
    /\ UNCHANGED <<now, entries, sheets_api, held, series, offered>>

NextTrend == CalculateTrend

SpecTrend == InitTrend /\ [][NextTrend]_vars

----------------------------------------------------------------------------
(* get_recent_entries called on stores of its own *)

MaxPatternLen == 2

\* an entry with a timestamp of its own, as an import gives it
EntryAt(ts) == [MoodEntry_init([mood_score |-> 5], 0) EXCEPT !.timestamp = ts]

\* one whose text carried a UTC offset
EntryAware(ts) == [EntryAt(ts) EXCEPT !.tzinfo = <<0>>]

\* datetime.min, a day and a tick before the start, the start, a tick after
RecentStamps == {0, StartTime - TicksPerDay, StartTime - 1, StartTime, StartTime + 1}

RecentClocks == {StartTime, StartTime + 1}

InitRecent ==
    /\ now \in RecentClocks
    /\ entries \in SeqsUpTo({EntryAt(ts) : ts \in RecentStamps}
                             \cup {EntryAware(StartTime)}, MaxPatternLen)
    /\ sheets_api = "none"
    /\ held = {}
    /\ ret = [op |-> "init"]
    /\ series = <<>>
    /\ trend = "none"
    /\ offered = <<>>

NextRecent == Recent

SpecRecent == InitRecent /\ [][NextRecent]_vars

----------------------------------------------------------------------------
(* get_mood_patterns called on stores of its own *)

MaxTagsLen == 2

\* an entry stamped at the start of a day
EntryOn(day, mood_score, tags) ==
    [MoodEntry_init([mood_score |-> mood_score,
                     tags |-> JArr([i \in 1..Len(tags) |-> JStr(tags[i])])], 0)
        EXCEPT !.timestamp = day * TicksPerDay]

\* two Mondays a week apart and a Sunday
PatternDays == {0, 6, 7}

\* the entries of a day score 0, 2, 3: a Monday of zeros, and a Monday a
\* week later that shares its bucket
PatternEntries ==
    {EntryOn(d, d % 4, t) : d \in PatternDays,
                            t \in SeqsUpTo({work, Work}, MaxTagsLen)}

\* Scenario C: work, Work and rest across three records
ScenarioC ==
    <<EntryOn(1, 5, <<work>>), EntryOn(2, 6, <<Work>>), EntryOn(3, 7, <<rest>>)>>

\* the text 't01', 't02', ...: the letter t and two digits
T(n) == <<116, 48 + (n \div 10), 48 + (n % 10)>>

\* twelve tags, three of them used twice
ManyTags ==
    <<EntryOn(4, 1, <<T(1), T(2), T(3), T(4), T(5), T(6)>>),
      EntryOn(5, 2, <<T(7), T(8), T(9), T(10), T(11), T(12)>>),
      EntryOn(5, 10, <<T(12), T(11), T(3)>>)>>

PatternStores ==
    SeqsUpTo(PatternEntries, MaxPatternLen) \cup {ScenarioC, ManyTags}

InitPatterns ==
    /\ now = StartTime
    /\ entries \in PatternStores
    /\ sheets_api = "none"
    /\ held = {}
    /\ ret = [op |-> "init"]
    /\ series = <<>>
    /\ trend = "none"
    /\ offered = <<>>

NextPatterns == Patterns

SpecPatterns == InitPatterns /\ [][NextPatterns]_vars

----------------------------------------------------------------------------
(* Claims *)

InScale(x) == x \in 1..10

\* C1: with a gateway configured, add returns false exactly when the
\* gateway's append failed, by raising or by reporting success = false.
C1_AddReportsGatewayFailure ==
    (ret.op = "add" /\ sheets_api # "none") =>
        (ret.result = "False" <=>
            ret.gateway.result \in {"False", "raise", "raise_base"})

\* C2 as stated: whatever the gateway does, add raises nothing (it returns
\* a boolean) and leaves the store as the sequence before the call with the
\* record appended as its last element.
C2_AddAppendsAndNeverRaises ==
    ret.op = "add" =>
        /\ ret.result \in {"True", "False"}
        /\ entries = Append(ret.before, ret.arg)

\* C2 amended: add returns a boolean unless the gateway's append raises an
\* exception that is no Exception (KeyboardInterrupt, SystemExit), which
\* reaches the caller; in every case the record sits at the end of the
\* sequence before the call and the append is not rolled back.  The store
\* is that sequence with the record appended unless the gateway itself
\* changed the tracker or the record during its call: what it imported
\* follows the record, and the record it changed is stored as changed.
C2_AddAppendsWithoutRollback ==
    ret.op = "add" =>
        LET n == Len(ret.before) IN
        /\ ret.result = "raised" <=> ret.gateway.result = "raise_base"
        /\ ret.result \in {"True", "False", "raised"}
        /\ Len(entries) > n
        /\ ret.gateway.effect = "none" => entries = Append(ret.before, ret.arg)
        /\ ret.gateway.effect = "import" =>
               SubSeq(entries, 1, n + 1) = Append(ret.before, ret.arg)
        /\ ret.gateway.effect = "mutate" =>
               /\ Len(entries) = n + 1
               /\ entries[n + 1] = Mutated(ret.arg)

C2_Witness ==
    /\ ret.op = "add"
    /\ ret.gateway.result = "raise_base"
    /\ ret.result = "raised"
    /\ ret.before # <<>>
    /\ entries = Append(ret.before, ret.arg)

\* the text is malformed: not parseable, not an array, or an element of the
\* array is no object, lacks mood_score or has an unparseable timestamp
Malformed(text) ==
    \/ ~text.valid
    \/ text.doc.k # "arr"
    \/ \E i \in 1..Len(text.doc.v) :
          LET item == text.doc.v[i] IN
          \/ item.k # "dict"
          \/ ~Has(item, "mood_score")
          \/ Has(item, "timestamp") /\ ~fromisoformat(Get(item, "timestamp")).ok

\* C3: import of a malformed text returns a failure result and leaves the
\* store exactly as it was.
C3_MalformedImportRejected ==
    (ret.op = "import" /\ Malformed(ret.arg)) =>
        (ret.result = "False" /\ entries = ret.before)

\* C4: the export of any reachable store, imported into a fresh empty
\* store, succeeds and yields the same records in the same order, equal
\* field for field.
C4_RoundTrip ==
    ret.op = "export_import" =>
        /\ ret.result = "True"
        /\ Len(ret.fresh) = Len(ret.source)
        /\ \A i \in 1..Len(ret.source) :
              \A f \in {"timestamp", "tzinfo", "mood_score", "stress_level",
                        "energy_level", "sleep_hours", "notes", "tags"} :
                  ret.fresh[i][f] = ret.source[i][f]

C4_Witness ==
    /\ ret.op = "export_import"
    /\ ret.result = "True"
    /\ Len(ret.source) = MaxEntries
    /\ \E i \in 1..Len(ret.source) : ret.source[i].timestamp % TicksPerSec # 0
    /\ \E i \in 1..Len(ret.source) : ret.source[i].tags.k # "arr"
    /\ ret.fresh = ret.source

\* the elements of the document an import iterates over as entries
TextItems(text) == IF text.doc.k = "arr" THEN text.doc.v ELSE <<>>

\* record e is what element item of the text describes: the values of the
\* text, an empty list of tags for tags that are null or empty
Describes(item, e) ==
    /\ \A k \in 1..Len(FieldNames) :
           (Has(item, FieldNames[k]) /\ FieldNames[k] \notin {"timestamp", "tags"}) =>
               e[FieldNames[k]] = Get(item, FieldNames[k])
    /\ Has(item, "tags") =>
           e.tags = (IF Truthy(Get(item, "tags")) THEN Get(item, "tags") ELSE JArr(<<>>))
    /\ Has(item, "timestamp") =>
           /\ e.timestamp = fromisoformat(Get(item, "timestamp")).value
           /\ e.tzinfo = fromisoformat(Get(item, "timestamp")).tzinfo

\* C5: after a successful import the store is the sequence before the call
\* followed by the records of the text in the order of the text.
C5_ImportAppends ==
    (ret.op = "import" /\ ret.result = "True") =>
        LET n == Len(ret.before)
            items == TextItems(ret.arg)
        IN  /\ Len(entries) = n + Len(items)
            /\ SubSeq(entries, 1, n) = ret.before
            /\ \A i \in 1..Len(items) : Describes(items[i], entries[n + i])

C5_Witness ==
    /\ ret.op = "import"
    /\ ret.result = "True"
    /\ ret.before # <<>>
    /\ Len(entries) > Len(ret.before)
    /\ SubSeq(entries, 1, Len(ret.before)) = ret.before

\* C6: every record of the store has mood_score, stress_level and
\* energy_level within 1..10.
C6_ScoresInScale ==
    \A i \in 1..Len(entries) :
        /\ InScale(entries[i].mood_score)
        /\ InScale(entries[i].stress_level)
        /\ InScale(entries[i].energy_level)

\* C7: the date range of a trend summary is the earliest and the latest
\* date of the records of the window, so start <= end.
C7_DateRangeIsMinMax ==
    (ret.op = "trends" /\ "date_range" \in DOMAIN ret.result) =>
        LET window == get_recent_entries(entries, now, ret.arg).value
            dates  == {date(window[i].timestamp) : i \in 1..Len(window)}
        IN  /\ ret.result.date_range.start \in dates
            /\ ret.result.date_range.end \in dates
            /\ \A d \in dates : ret.result.date_range.start <= d
            /\ \A d \in dates : d <= ret.result.date_range.end
            /\ ret.result.date_range.start <= ret.result.date_range.end

\* C8: _calculate_trend classifies by the difference of the means of the
\* two halves: improving iff it exceeds 0.5, declining iff it is below
\* -0.5, stable otherwise (also at exactly 0.5 and -0.5), and
\* insufficient_data for fewer than 2 samples.
C8_TrendByMeanDifference ==
    trend # "none" => trend = calculate_trend_exact(series)

\* C9: the timestamps of the store are non-decreasing from first to last.
C9_StoreTimeOrdered ==
    \A i \in 1..(Len(entries) - 1) :
        entries[i].timestamp <= entries[i + 1].timestamp

\* C10 as stated: no stored timestamp is later than the moment its record
\* was inserted, hence none is later than the clock.
C10_NoTimestampAheadOfClock ==
    \A i \in 1..Len(entries) : entries[i].timestamp <= now

\* C10 amended: a record made with MoodEntry(...) is stamped with the
\* reading of the system clock at its construction, and add stores the
\* record with the timestamp it carries; an imported record carries the
\* timestamp of its text, and the clock's reading at its conversion when the
\* text gives none.
C10_StampsFromClockOrText ==
    /\ ret.op = "construct" =>
           \E e \in held : e.timestamp = now /\ e.tzinfo = <<>>
    /\ ret.op = "add" =>
           entries[Len(ret.before) + 1].timestamp = ret.arg.timestamp
    /\ (ret.op = "import" /\ ret.result = "True") =>
           LET n == Len(ret.before)
               items == TextItems(ret.arg)
           IN  \A i \in 1..Len(items) :
                   entries[n + i].timestamp =
                       IF Has(items[i], "timestamp")
                       THEN fromisoformat(Get(items[i], "timestamp")).value
                       ELSE Reading(ret.clock, ret.step, i)

\* a record of MoodEntry(...) added after the clock was set back: its
\* timestamp is later than the moment of the add
C10_Witness ==
    /\ ret.op = "add"
    /\ ret.arg.notes = <<>>
    /\ ret.arg.timestamp > now
    /\ entries[Len(entries)] = ret.arg

\* the operations that only read the store
ReadOps == {"recent", "by_tag", "trends", "patterns", "export"}

\* a place of the list holds the record it held: a record is the object the
\* caller made, and what a gateway writes into it changes its content, not
\* which record it is
SameRecord(after, before) == after = before \/ after = Mutated(before)

AppendOnlyButReentry ==
    [][/\ Len(entries') >= Len(entries)
       /\ IF ret'.op = "add"
          THEN /\ \A i \in 1..Len(entries) : SameRecord(entries'[i], entries[i])
               /\ SameRecord(entries'[Len(entries) + 1], ret'.arg)
               /\ IF ret'.gateway.effect = "import"
                  THEN SubSeq(entries', 1, Len(entries) + 1) = Append(entries, ret'.arg)
                  ELSE Len(entries') = Len(entries) + 1
          ELSE SubSeq(entries', 1, Len(entries)) = entries
       /\ (ret'.op = "import" /\ ret'.result = "False") => entries' = entries
       /\ ret'.op \in ReadOps => entries' = entries]_vars

\* the window a recent step asked for: the days given, 7 when left out
DaysOf(args) == IF "days" \in DOMAIN args THEN args.days ELSE 7

\* the indices of the store whose timestamp is >= clock - d days
InWindow(es, clock, d) ==
    {i \in 1..Len(es) : es[i].timestamp >= clock - d * TicksPerDay}

\* seq is the elements of es at the indices idx, in the order of es
IsSelection(seq, es, idx) ==
    /\ Len(seq) = Cardinality(idx)
    /\ \A i \in idx : seq[Cardinality({j \in idx : j <= i})] = es[i]

\* C12: for every non-negative integer d, recent(d) returns exactly the
\* records whose timestamp is >= now - d days (boundary inclusive), in
\* store order; d is 7 when no argument is given.
C12_RecentIsWindow ==
    ret.op = "recent" =>
        /\ ret.result.ok
        /\ IsSelection(ret.result.value, entries, InWindow(entries, now, DaysOf(ret.arg)))

\* the window query wherever the cutoff is a moment a datetime can hold
\* and every timestamp of the store is naive: the selection of the store by
\* the cutoff; OverflowError beyond, else TypeError with an aware timestamp
RecentIsWindowInRange ==
    ret.op = "recent" =>
        LET d == DaysOf(ret.arg) IN
        IF now - d * TicksPerDay \notin 0..MaxTime
        THEN ~ret.result.ok /\ ret.result.error = "OverflowError"
        ELSE IF \E i \in 1..Len(entries) : entries[i].tzinfo # <<>>
        THEN ~ret.result.ok /\ ret.result.error = "TypeError"
        ELSE /\ ret.result.ok
             /\ IsSelection(ret.result.value, entries, InWindow(entries, now, d))

\* the windows the model asks for
Windows == {DaysOf(args) : args \in RecentArgs}

\* every element of seq is an element of other
Within(seq, other) ==
    \A k \in 1..Len(seq) : \E j \in 1..Len(other) : other[j] = seq[k]

\* C13: recent is monotonic in its window: for the same store and the same
\* now, every record returned by recent(d1) is also returned by recent(d2)
\* whenever d1 <= d2.
C13_RecentMonotonic ==
    (ret.op = "recent" /\ ret.result.ok) =>
        \A d2 \in Windows :
            DaysOf(ret.arg) <= d2 =>
                LET wider == get_recent_entries(entries, now, d2)
                IN  \A k \in 1..Len(ret.result.value) :
                        /\ wider.ok
                        /\ \E j \in 1..Len(wider.value) :
                               wider.value[j] = ret.result.value[k]

\* the same between two windows that both return: the records of the
\* narrower are among those of the wider; and of two windows the wider is the
\* one that raises when only one does
RecentMonotonicInRange ==
    ret.op = "recent" =>
        \A d2 \in Windows :
            DaysOf(ret.arg) <= d2 =>
                LET wider == get_recent_entries(entries, now, d2)
                IN  /\ wider.ok => (ret.result.ok /\ Within(ret.result.value, wider.value))
                    /\ ~ret.result.ok => ~wider.ok

\* str.upper(), from the Unicode character database as lower() is: the code
\* points whose uppercase form is one other code point, those of ASCII and
\* Latin-1 and those beyond
UpperLatin1 ==
    {<<97, 122, 1, -32>>, <<181, 181, 1, 743>>, <<224, 246, 1, -32>>,
     <<248, 254, 1, -32>>, <<255, 255, 1, 121>>}

UpperRanges ==
    {
      <<257, 303, 2, -1>>, <<305, 305, 1, -232>>, <<307, 311, 2, -1>>,
      <<314, 328, 2, -1>>, <<331, 375, 2, -1>>, <<378, 382, 2, -1>>,
      <<383, 383, 1, -300>>, <<384, 384, 1, 195>>, <<387, 389, 2, -1>>,
      <<392, 392, 1, -1>>, <<396, 396, 1, -1>>, <<402, 402, 1, -1>>,
      <<405, 405, 1, 97>>, <<409, 409, 1, -1>>, <<410, 410, 1, 163>>,
      <<414, 414, 1, 130>>, <<417, 421, 2, -1>>, <<424, 424, 1, -1>>,
      <<429, 429, 1, -1>>, <<432, 432, 1, -1>>, <<436, 438, 2, -1>>,
      <<441, 441, 1, -1>>, <<445, 445, 1, -1>>, <<447, 447, 1, 56>>,
      <<453, 453, 1, -1>>, <<454, 454, 1, -2>>, <<456, 456, 1, -1>>,
      <<457, 457, 1, -2>>, <<459, 459, 1, -1>>, <<460, 460, 1, -2>>,
      <<462, 476, 2, -1>>, <<477, 477, 1, -79>>, <<479, 495, 2, -1>>,
      <<498, 498, 1, -1>>, <<499, 499, 1, -2>>, <<501, 501, 1, -1>>,
      <<505, 543, 2, -1>>, <<547, 563, 2, -1>>, <<572, 572, 1, -1>>,
      <<575, 576, 1, 10815>>, <<578, 578, 1, -1>>, <<583, 591, 2, -1>>,
      <<592, 592, 1, 10783>>, <<593, 593, 1, 10780>>,
      <<594, 594, 1, 10782>>, <<595, 595, 1, -210>>, <<596, 596, 1, -206>>,
      <<598, 599, 1, -205>>, <<601, 601, 1, -202>>, <<603, 603, 1, -203>>,
      <<604, 604, 1, 42319>>, <<608, 608, 1, -205>>, <<609, 609, 1, 42315>>,
      <<611, 611, 1, -207>>, <<613, 613, 1, 42280>>, <<614, 614, 1, 42308>>,
      <<616, 616, 1, -209>>, <<617, 617, 1, -211>>, <<618, 618, 1, 42308>>,
      <<619, 619, 1, 10743>>, <<620, 620, 1, 42305>>, <<623, 623, 1, -211>>,
      <<625, 625, 1, 10749>>, <<626, 626, 1, -213>>, <<629, 629, 1, -214>>,
      <<637, 637, 1, 10727>>, <<640, 640, 1, -218>>, <<642, 642, 1, 42307>>,
      <<643, 643, 1, -218>>, <<647, 647, 1, 42282>>, <<648, 648, 1, -218>>,
      <<649, 649, 1, -69>>, <<650, 651, 1, -217>>, <<652, 652, 1, -71>>,
      <<658, 658, 1, -219>>, <<669, 669, 1, 42261>>, <<670, 670, 1, 42258>>,
      <<837, 837, 1, 84>>, <<881, 883, 2, -1>>, <<887, 887, 1, -1>>,
      <<891, 893, 1, 130>>, <<940, 940, 1, -38>>, <<941, 943, 1, -37>>,
      <<945, 961, 1, -32>>, <<962, 962, 1, -31>>, <<963, 971, 1, -32>>,
      <<972, 972, 1, -64>>, <<973, 974, 1, -63>>, <<976, 976, 1, -62>>,
      <<977, 977, 1, -57>>, <<981, 981, 1, -47>>, <<982, 982, 1, -54>>,
      <<983, 983, 1, -8>>, <<985, 1007, 2, -1>>, <<1008, 1008, 1, -86>>,
      <<1009, 1009, 1, -80>>, <<1010, 1010, 1, 7>>, <<1011, 1011, 1, -116>>,
      <<1013, 1013, 1, -96>>, <<1016, 1016, 1, -1>>, <<1019, 1019, 1, -1>>,
      <<1072, 1103, 1, -32>>, <<1104, 1119, 1, -80>>, <<1121, 1153, 2, -1>>,
      <<1163, 1215, 2, -1>>, <<1218, 1230, 2, -1>>, <<1231, 1231, 1, -15>>,
      <<1233, 1327, 2, -1>>, <<1377, 1414, 1, -48>>,
      <<4304, 4346, 1, 3008>>, <<4349, 4351, 1, 3008>>,
      <<5112, 5117, 1, -8>>, <<7296, 7296, 1, -6254>>,
      <<7297, 7297, 1, -6253>>, <<7298, 7298, 1, -6244>>,
      <<7299, 7300, 1, -6242>>, <<7301, 7301, 1, -6243>>,
      <<7302, 7302, 1, -6236>>, <<7303, 7303, 1, -6181>>,
      <<7304, 7304, 1, 35266>>, <<7545, 7545, 1, 35332>>,
      <<7549, 7549, 1, 3814>>, <<7566, 7566, 1, 35384>>,
      <<7681, 7829, 2, -1>>, <<7835, 7835, 1, -59>>, <<7841, 7935, 2, -1>>,
      <<7936, 7943, 1, 8>>, <<7952, 7957, 1, 8>>, <<7968, 7975, 1, 8>>,
      <<7984, 7991, 1, 8>>, <<8000, 8005, 1, 8>>, <<8017, 8023, 2, 8>>,
      <<8032, 8039, 1, 8>>, <<8048, 8049, 1, 74>>, <<8050, 8053, 1, 86>>,
      <<8054, 8055, 1, 100>>, <<8056, 8057, 1, 128>>,
      <<8058, 8059, 1, 112>>, <<8060, 8061, 1, 126>>, <<8112, 8113, 1, 8>>,
      <<8126, 8126, 1, -7205>>, <<8144, 8145, 1, 8>>, <<8160, 8161, 1, 8>>,
      <<8165, 8165, 1, 7>>, <<8526, 8526, 1, -28>>, <<8560, 8575, 1, -16>>,
      <<8580, 8580, 1, -1>>, <<9424, 9449, 1, -26>>,
      <<11312, 11359, 1, -48>>, <<11361, 11361, 1, -1>>,
      <<11365, 11365, 1, -10795>>, <<11366, 11366, 1, -10792>>,
      <<11368, 11372, 2, -1>>, <<11379, 11379, 1, -1>>,
      <<11382, 11382, 1, -1>>, <<11393, 11491, 2, -1>>,
      <<11500, 11502, 2, -1>>, <<11507, 11507, 1, -1>>,
      <<11520, 11557, 1, -7264>>, <<11559, 11559, 1, -7264>>,
      <<11565, 11565, 1, -7264>>, <<42561, 42605, 2, -1>>,
      <<42625, 42651, 2, -1>>, <<42787, 42799, 2, -1>>,
      <<42803, 42863, 2, -1>>, <<42874, 42876, 2, -1>>,
      <<42879, 42887, 2, -1>>, <<42892, 42892, 1, -1>>,
      <<42897, 42899, 2, -1>>, <<42900, 42900, 1, 48>>,
      <<42903, 42921, 2, -1>>, <<42933, 42947, 2, -1>>,
      <<42952, 42954, 2, -1>>, <<42961, 42961, 1, -1>>,
      <<42967, 42969, 2, -1>>, <<42998, 42998, 1, -1>>,
      <<43859, 43859, 1, -928>>, <<43888, 43967, 1, -38864>>,
      <<65345, 65370, 1, -32>>, <<66600, 66639, 1, -40>>,
      <<66776, 66811, 1, -40>>, <<66967, 66977, 1, -39>>,
      <<66979, 66993, 1, -39>>, <<66995, 67001, 1, -39>>,
      <<67003, 67004, 1, -39>>, <<68800, 68850, 1, -64>>,
      <<71872, 71903, 1, -32>>, <<93792, 93823, 1, -32>>,
      <<125218, 125251, 1, -34>>
    }

\* the code points whose uppercase form is more than one code point, each
\* with that form; the uppercase form of the letter ß (223) is SS
UpperSpecial ==
    {
      <<223, <<83, 83>>>>, <<329, <<700, 78>>>>, <<496, <<74, 780>>>>,
      <<912, <<921, 776, 769>>>>, <<944, <<933, 776, 769>>>>,
      <<1415, <<1333, 1362>>>>, <<7830, <<72, 817>>>>,
      <<7831, <<84, 776>>>>, <<7832, <<87, 778>>>>, <<7833, <<89, 778>>>>,
      <<7834, <<65, 702>>>>, <<8016, <<933, 787>>>>,
      <<8018, <<933, 787, 768>>>>, <<8020, <<933, 787, 769>>>>,
      <<8022, <<933, 787, 834>>>>, <<8064, <<7944, 921>>>>,
      <<8065, <<7945, 921>>>>, <<8066, <<7946, 921>>>>,
      <<8067, <<7947, 921>>>>, <<8068, <<7948, 921>>>>,
      <<8069, <<7949, 921>>>>, <<8070, <<7950, 921>>>>,
      <<8071, <<7951, 921>>>>, <<8072, <<7944, 921>>>>,
      <<8073, <<7945, 921>>>>, <<8074, <<7946, 921>>>>,
      <<8075, <<7947, 921>>>>, <<8076, <<7948, 921>>>>,
      <<8077, <<7949, 921>>>>, <<8078, <<7950, 921>>>>,
      <<8079, <<7951, 921>>>>, <<8080, <<7976, 921>>>>,
      <<8081, <<7977, 921>>>>, <<8082, <<7978, 921>>>>,
      <<8083, <<7979, 921>>>>, <<8084, <<7980, 921>>>>,
      <<8085, <<7981, 921>>>>, <<8086, <<7982, 921>>>>,
      <<8087, <<7983, 921>>>>, <<8088, <<7976, 921>>>>,
      <<8089, <<7977, 921>>>>, <<8090, <<7978, 921>>>>,
      <<8091, <<7979, 921>>>>, <<8092, <<7980, 921>>>>,
      <<8093, <<7981, 921>>>>, <<8094, <<7982, 921>>>>,
      <<8095, <<7983, 921>>>>, <<8096, <<8040, 921>>>>,
      <<8097, <<8041, 921>>>>, <<8098, <<8042, 921>>>>,
      <<8099, <<8043, 921>>>>, <<8100, <<8044, 921>>>>,
      <<8101, <<8045, 921>>>>, <<8102, <<8046, 921>>>>,
      <<8103, <<8047, 921>>>>, <<8104, <<8040, 921>>>>,
      <<8105, <<8041, 921>>>>, <<8106, <<8042, 921>>>>,
      <<8107, <<8043, 921>>>>, <<8108, <<8044, 921>>>>,
      <<8109, <<8045, 921>>>>, <<8110, <<8046, 921>>>>,
      <<8111, <<8047, 921>>>>, <<8114, <<8122, 921>>>>,
      <<8115, <<913, 921>>>>, <<8116, <<902, 921>>>>,
      <<8118, <<913, 834>>>>, <<8119, <<913, 834, 921>>>>,
      <<8124, <<913, 921>>>>, <<8130, <<8138, 921>>>>,
      <<8131, <<919, 921>>>>, <<8132, <<905, 921>>>>,
      <<8134, <<919, 834>>>>, <<8135, <<919, 834, 921>>>>,
      <<8140, <<919, 921>>>>, <<8146, <<921, 776, 768>>>>,
      <<8147, <<921, 776, 769>>>>, <<8150, <<921, 834>>>>,
      <<8151, <<921, 776, 834>>>>, <<8162, <<933, 776, 768>>>>,
      <<8163, <<933, 776, 769>>>>, <<8164, <<929, 787>>>>,
      <<8166, <<933, 834>>>>, <<8167, <<933, 776, 834>>>>,
      <<8178, <<8186, 921>>>>, <<8179, <<937, 921>>>>,
      <<8180, <<911, 921>>>>, <<8182, <<937, 834>>>>,
      <<8183, <<937, 834, 921>>>>, <<8188, <<937, 921>>>>,
      <<64256, <<70, 70>>>>, <<64257, <<70, 73>>>>, <<64258, <<70, 76>>>>,
      <<64259, <<70, 70, 73>>>>, <<64260, <<70, 70, 76>>>>,
      <<64261, <<83, 84>>>>, <<64262, <<83, 84>>>>,
      <<64275, <<1348, 1350>>>>, <<64276, <<1348, 1333>>>>,
      <<64277, <<1348, 1339>>>>, <<64278, <<1358, 1350>>>>,
      <<64279, <<1348, 1341>>>>
    }

upper_char(c) ==
    LET s == {x \in UpperSpecial : x[1] = c}
        r == {x \in (IF c < 256 THEN UpperLatin1 ELSE UpperRanges) :
                 x[1] <= c /\ c <= x[2] /\ (c - x[1]) % x[3] = 0}
    IN  IF s # {} THEN (CHOOSE x \in s : TRUE)[2]
        ELSE IF r = {} THEN <<c>>
        ELSE <<c + (CHOOSE x \in r : TRUE)[4]>>

\* the uppercase variant of a tag text, as str.upper() gives it
upper(text) == Join([i \in 1..Len(text) |-> upper_char(text[i])])

\* record e has, among its tags, a text equal to t ignoring letter case
HasTag(e, t) ==
    /\ e.tags.k = "arr"
    /\ \E k \in 1..Len(e.tags.v) :
           e.tags.v[k].k = "str" /\ lower(e.tags.v[k].v) = lower(t)

\* C14: by_tag(t) returns exactly the records that have at least one tag
\* equal to t ignoring letter case, in store order and each once, also when
\* a record carries several case variants of t; the result is the same for
\* every case variant of t: its lowercase and its uppercase form.
C14_ByTagIgnoresCase ==
    ret.op = "by_tag" =>
        /\ ret.result.ok
        /\ IsSelection(ret.result.value, entries,
                       {i \in 1..Len(entries) : HasTag(entries[i], ret.arg.v)})
        /\ search_entries_by_tag(entries, JStr(lower(ret.arg.v))) = ret.result
        /\ search_entries_by_tag(entries, JStr(upper(ret.arg.v))) = ret.result

\* the tags of the store, as a set of literal texts
TagsOf(es) ==
    UNION {{es[i].tags.v[k] : k \in 1..Len(es[i].tags.v)} : i \in 1..Len(es)}

\* how often the exact text tag occurs over the records of the store
RECURSIVE Occurrences(_, _)
Occurrences(es, tag) ==
    IF es = <<>> THEN 0
    ELSE Cardinality({k \in 1..Len(Head(es).tags.v) : Head(es).tags.v[k] = tag})
         + Occurrences(Tail(es), tag)

\* where the tag occurs first: the record, and the place in its tags
FirstSeen(es, tag) ==
    LET i == CHOOSE i \in 1..Len(es) :
                 /\ \E k \in 1..Len(es[i].tags.v) : es[i].tags.v[k] = tag
                 /\ \A j \in 1..(i - 1) :
                        \A k \in 1..Len(es[j].tags.v) : es[j].tags.v[k] # tag
        k == CHOOSE k \in 1..Len(es[i].tags.v) :
                 /\ es[i].tags.v[k] = tag
                 /\ \A l \in 1..(k - 1) : es[i].tags.v[l] # tag
    IN  <<i, k>>

\* tag a ranks before tag b: more occurrences, or as many and seen first
RanksBefore(es, a, b) ==
    \/ Occurrences(es, a) > Occurrences(es, b)
    \/ /\ Occurrences(es, a) = Occurrences(es, b)
       /\ \/ FirstSeen(es, a)[1] < FirstSeen(es, b)[1]
          \/ /\ FirstSeen(es, a)[1] = FirstSeen(es, b)[1]
             /\ FirstSeen(es, a)[2] < FirstSeen(es, b)[2]

\* C15: the tag ranking counts tags by their literal text, lists the
\* (tag, count) pairs by count descending with ties in order of first
\* occurrence, and returns at most the first 10; each count is the number of
\* occurrences of that exact tag.
C15_TagRanking ==
    (ret.op = "patterns" /\ entries # <<>>) =>
        LET ranking == ret.result.common_tags
            listed  == {ranking[j][1] : j \in 1..Len(ranking)}
        IN  /\ Len(ranking) =
                   IF Cardinality(TagsOf(entries)) < 10
                   THEN Cardinality(TagsOf(entries)) ELSE 10
            /\ Cardinality(listed) = Len(ranking)
            /\ listed \subseteq TagsOf(entries)
            /\ \A j \in 1..Len(ranking) :
                   ranking[j][2] = Occurrences(entries, ranking[j][1])
            /\ \A j \in 1..Len(ranking) : \A k \in (j + 1)..Len(ranking) :
                   RanksBefore(entries, ranking[j][1], ranking[k][1])
            /\ \A a \in listed : \A b \in TagsOf(entries) \ listed :
                   RanksBefore(entries, a, b)

C15_Witness ==
    /\ ret.op = "patterns"
    /\ entries = ManyTags
    /\ Len(ret.result.common_tags) = 10
    /\ ret.result.common_tags[1] = <<JStr(T(3)), 2>>
    /\ ret.result.common_tags[3] = <<JStr(T(12)), 2>>
    /\ ret.result.common_tags[10] = <<JStr(T(8)), 1>>

\* the records of the store whose timestamp falls on weekday k (Monday = 0)
OnWeekday(es, k) == {i \in 1..Len(es) : (es[i].timestamp \div TicksPerDay) % 7 = k}

\* the sum of the mood scores of the records at the indices idx
RECURSIVE ScoreSum(_, _)
ScoreSum(es, idx) ==
    IF idx = {} THEN 0
    ELSE LET i == CHOOSE i \in idx : TRUE
         IN  es[i].mood_score + ScoreSum(es, idx \ {i})

DayNames ==
    [k \in 0..6 |-> CASE k = 0 -> "Monday" [] k = 1 -> "Tuesday" [] k = 2 -> "Wednesday"
                       [] k = 3 -> "Thursday" [] k = 4 -> "Friday" [] k = 5 -> "Saturday"
                       [] OTHER -> "Sunday"]

\* C16: over a non-empty store every record falls in exactly one of the 7
\* weekday buckets (Monday = 0 .. Sunday = 6); a bucket with records
\* reports the mean mood_score of its records, a bucket without reports the
\* no-data marker, never 0.
C16_WeekdayAverages ==
    (ret.op = "patterns" /\ entries # <<>>) =>
        LET averages == ret.result.weekday_averages IN
        /\ DOMAIN averages = {DayNames[k] : k \in 0..6}
        /\ \A i \in 1..Len(entries) :
               Cardinality({k \in 0..6 : i \in OnWeekday(entries, k)}) = 1
        /\ \A k \in 0..6 :
               LET bucket == OnWeekday(entries, k) IN
               IF bucket = {}
               THEN /\ averages[DayNames[k]] = None
                    /\ "sum" \notin DOMAIN averages[DayNames[k]]
               ELSE /\ averages[DayNames[k]].sum = ScoreSum(entries, bucket)
                    /\ averages[DayNames[k]].len = Cardinality(bucket)

C16_Witness ==
    /\ ret.op = "patterns"
    /\ Len(entries) = 2
    /\ entries[1].timestamp = 7 * TicksPerDay
    /\ entries[2].timestamp = 0
    /\ ret.result.weekday_averages["Monday"] = [sum |-> 3, len |-> 2]
    /\ ret.result.weekday_averages["Sunday"] = None

\* the no-data result and nothing else: no averages, trend or counts
IsNoData(result) == DOMAIN result = {"error"}

\* C17: the trend summary, for a window of d >= 0 days, returns the no-data
\* result exactly when no record falls in the window, also when the store is
\* not empty but every record is older than the window; the pattern
\* analysis returns it exactly when the store is empty; the no-data result
\* carries no averages, trend or counts.
C17_NoDataWhenEmpty ==
    /\ (ret.op = "trends" /\ ret.arg >= 0) =>
           (IsNoData(ret.result) <=> InWindow(entries, now, ret.arg) = {})
    /\ ret.op = "patterns" =>
           (IsNoData(ret.result) <=> entries = <<>>)

\* the same for the windows whose cutoff a datetime can hold, over stores
\* of naive timestamps; beyond, the trend summary raises OverflowError
\* whatever the store holds, and else TypeError with an aware timestamp
NoDataWhenEmptyInRange ==
    /\ ret.op = "trends" =>
           IF now - ret.arg * TicksPerDay \notin 0..MaxTime
           THEN ret.result = Raised("OverflowError")
           ELSE IF \E i \in 1..Len(entries) : entries[i].tzinfo # <<>>
           THEN ret.result = Raised("TypeError")
           ELSE /\ IsNoData(ret.result) <=> InWindow(entries, now, ret.arg) = {}
                /\ ~IsNoData(ret.result) => "avg_mood" \in DOMAIN ret.result
    /\ ret.op = "patterns" =>
           /\ IsNoData(ret.result) <=> entries = <<>>
           /\ ~IsNoData(ret.result) => "weekday_averages" \in DOMAIN ret.result

\* one step: an add with a gateway configured makes one call, with the
\* record added and the store that already holds it; no other step makes a
\* call
MirrorStep ==
    /\ (ret'.op = "add" /\ sheets_api # "none") =>
           offered' = Append(offered, [record |-> ret'.arg,
                                       store  |-> Append(entries, ret'.arg)])
    /\ (ret'.op = "add" /\ sheets_api = "none") => offered' = offered
    /\ ret'.op # "add" => offered' = offered

\* C18: with a gateway configured each add invokes the gateway's append
\* exactly once, with the record added, after the record is in the store;
\* import never invokes it; so the gateway has been offered exactly the
\* added records, in add order, and none of the imported ones.
C18_MirrorOncePerAdd == [][MirrorStep]_vars

=============================================================================
